---- MODULE Spec2Model ----
(***************************************************************************)
(* A model of the KiroMK4 audio pipeline (src/src/kiro/audio): the         *)
(* AudioPipeline state machine with its start()/stop() life cycle, its     *)
(* processing loop task, and the wake-word, VAD and STT components as far  *)
(* as the pipeline drives them.                                            *)
(*                                                                         *)
(* Scheduling: the pipeline runs on one asyncio event loop, so the code    *)
(* between two suspension points (await) is one atomic step.  The loop     *)
(* task's position is `task`: the await it is suspended at.  stop()        *)
(* cancels the task at that await; the components' start()/stop() bodies   *)
(* hold no await the loop task could interleave with, so start() and       *)
(* stop() are one step each.  The life-cycle calls are made one after the  *)
(* other (main.py awaits each), never two at a time.                       *)
(*                                                                         *)
(* Clock reads (time.time()) are inputs: the comparisons the code makes    *)
(* on them are drawn as booleans, so every timing is covered.              *)
(***************************************************************************)
EXTENDS Naturals, Sequences, FiniteSets

\* ---- program constants

\* capacity of the VAD ring buffer: int(padding_duration / frame duration)
PaddingFrames == 10

\* ---- bounds of the model

\* The safety ceiling of _handle_listening, in buffered entries.  The
\* source compares len(self._audio_buffer) > 300; the model keeps the
\* comparison and scales the number down so that every buffer length up to
\* the ceiling is explored together with every life-cycle interleaving.
SafetyCeiling == 3

\* wake-word detections are cut off when the event log could pass this size
MaxEvents == 6

VARIABLES
    pipeline_running,   \* AudioPipeline._running
    state,              \* AudioPipeline._state
    audio_buffer,       \* AudioPipeline._audio_buffer: "chunk" / "padding" entries
    task,               \* AudioPipeline._task: where _process_loop is suspended
    capture_running,    \* AudioCapture._running
    wake_running,       \* WakeWordDetector._running
    wake_model,         \* WakeWordDetector._model is loaded
    wake_detected,      \* WakeWordDetector._last_detection_time was set by a detection
    vad_running,        \* VoiceActivityDetector._running
    vad,                \* VoiceActivityDetector session state
    stt_running,        \* SpeechToText._running
    detection,          \* _handle_idle: the detection of the chunk being handled
    vad_result,         \* _handle_listening: end_of_speech of the last VAD result
    stt_result,         \* _transcribe_and_emit: outcome of the last transcribe()
    logged,             \* warnings and errors the current loop task has logged
    events,             \* events handed to EventBus.emit, in order
    last_call,          \* the last life-cycle call made: start() or stop()
    calls,              \* what that call invoked, in order, with each outcome
    call_result,        \* how that call ended: "returned" or "raised"
    given               \* the last chunk the loop dequeued: the state it was
                        \* dequeued in, what it was given to, and the state
                        \* the chunk before it was dequeued in

vars == << pipeline_running, state, audio_buffer, task, capture_running,
           wake_running, wake_model, wake_detected, vad_running, vad,
           stt_running, detection, vad_result, stt_result, logged,
           events, last_call, calls, call_result, given >>

\* The components are also specified on their own, each with its own
\* variables and its own specification; a specification leaves the
\* variables of the others at rest.

\* AudioCapture on its own (CaptureSpec): the audio thread, the event loop
\* and a consumer
VARIABLES
    stream,             \* AudioCapture._stream is open and started
    callback,           \* the chunk _audio_callback holds past its checks, 0: none
    loop_ready,         \* put_nowait calls handed to call_soon_threadsafe, not yet run
    audio_queue,        \* AudioCapture._audio_queue
    produced,           \* chunks the device has produced: chunk k is the number k
    returned,           \* the chunks get_chunk has returned, in order
    dropped             \* the chunks that were dropped

capture_vars == << stream, callback, loop_ready, audio_queue, produced,
                   returned, dropped >>

CaptureAtRest ==
    /\ stream = FALSE
    /\ callback = 0
    /\ loop_ready = << >>
    /\ audio_queue = << >>
    /\ produced = 0
    /\ returned = << >>
    /\ dropped = {}

\* VoiceActivityDetector on its own (VadSpec), with the clock it reads
VARIABLES
    vad_state,          \* the detector's fields, timestamps as clock readings
    vad_time,           \* the last reading of time.time()
    vad_calls           \* the process() calls since the last reset, with results

vad_vars == << vad_state, vad_time, vad_calls >>

\* a timestamp that is None
None == 0

\* VoiceActivityDetector.__init__: the state tracking and the flag
VadNew == [running |-> FALSE, is_speaking |-> FALSE,
           speech_start_time |-> None, last_speech_time |-> None,
           triggered |-> FALSE, ring_buffer |-> 0]

VadAtRest ==
    /\ vad_state = VadNew
    /\ vad_time = 1
    /\ vad_calls = << >>

\* VoiceActivityDetector(...) on its own (VadNewSpec)
VARIABLES
    constructor         \* the constructor call made, if any, with its outcome

\* WakeWordDetector on its own (WakeSpec), with the clock it reads
VARIABLES
    wake,               \* the detector's fields
    wake_ret,           \* what the last process() call did
    detections,         \* the timestamps of the detections returned, in order
    wake_call           \* the last process() call, if any: what it was given
                        \* and what it did

wake_vars == << wake, wake_ret, detections, wake_call >>

\* WakeWordDetector.__init__
WakeNew == [running |-> FALSE, model |-> FALSE, last_detection_time |-> 0]

WakeAtRest ==
    /\ wake = WakeNew
    /\ wake_ret = "none"
    /\ detections = << >>
    /\ wake_call = << >>

\* CapturePipeline.parse on its own (ParseSpec)
VARIABLES
    parsed              \* the parse call made, if any, with what came of it

\* CapturePipeline._parse_hhmm on its own (HhmmSpec)
VARIABLES
    hhmm                \* the _parse_hhmm call made, if any, and its result

\* ExecutiveFunctionEngine._handle_completion over the task store (EfeSpec)
VARIABLES
    tasks,              \* the rows of the task table, in creation order
    completion          \* the _handle_completion call just made, if any

efe_vars == << tasks, completion >>

\* EventBus on its own (BusSpec)
VARIABLES
    bus_handlers,       \* _handlers: the handlers subscribed under each key
    bus_running,        \* _running
    bus_queue,          \* _queue
    unfinished,         \* the queue's count of unfinished tasks
    processor,          \* _processor_task and where _process_queue stands
    emitted,            \* the emit() calls so far, with what came of each
    processed,          \* the _process_event calls that ended
    bus_stop            \* the stop() call made last, and where it stands

bus_vars ==
    << bus_handlers, bus_running, bus_queue, unfinished, processor, emitted,
       processed, bus_stop >>

\* CapturePipeline._parse_time on its own (TimeSpec)
VARIABLES
    timed               \* the _parse_time call made, if any, and its result

\* CapturePipeline._clean_task_title on its own (CleanSpec)
VARIABLES
    cleaned             \* the _clean_task_title call made, if any

\* TextToSpeech (TtsSpec) and the VoicePipeline handlers on the bus (VoiceSpec)
VARIABLES
    playback,           \* _current_playback: the playback task made last
    blocking,           \* the speak_blocking call made last
    speaks,             \* the speak() and speak_blocking() calls so far
    voice_queue,        \* the events the audio pipeline put on the bus
    voice_handler,      \* the handler the bus processor is in
    listening           \* the audio pipeline is between wake word and utterance

voice_vars ==
    << playback, blocking, speaks, voice_queue, voice_handler, listening >>

NoPlayback ==
    [state |-> "none", by |-> "", heard |-> FALSE, blocking |-> FALSE]
NoBlocking ==
    [at |-> "none", own |-> "none", set |-> FALSE, result |-> FALSE]

\* ReminderScheduler over the reminders table of EFEStore (SchedSpec)
VARIABLES
    reminder_rows,      \* the reminders table, in order of creation
    current_day,              \* datetime.now(), in days
    scheduler,          \* _running and the position of _run_loop
    manual,             \* the position of a check_now() call
    fired,              \* per reminder, the on_reminder calls made for it
    parent              \* per reminder, the occurrence it was scheduled from

sched_vars ==
    << reminder_rows, current_day, scheduler, manual, fired, parent >>

NoScheduler == [running |-> FALSE, at |-> "none", due |-> << >>]
NoCheck == [at |-> "none", due |-> << >>]

\* the components modelled on their own further below
rest_vars ==
    << hhmm, efe_vars, bus_vars, timed, cleaned, voice_vars, sched_vars >>

\* the keys handlers subscribe under
Keys == {"test.event", "test.*", "*"}

NoTask == [at |-> "none", ev |-> 0, handlers |-> << >>, outcomes |-> << >>]
NoStop == [at |-> "none", queued |-> << >>]

RestAtRest ==
    /\ hhmm = << >>
    /\ tasks = << >>
    /\ completion = << >>
    /\ bus_handlers = [ key \in Keys |-> << >> ]
    /\ bus_running = FALSE
    /\ bus_queue = << >>
    /\ unfinished = 0
    /\ processor = NoTask
    /\ emitted = << >>
    /\ processed = << >>
    /\ bus_stop = NoStop
    /\ timed = << >>
    /\ cleaned = << >>
    /\ playback = NoPlayback
    /\ blocking = NoBlocking
    /\ speaks = 0
    /\ voice_queue = << >>
    /\ voice_handler = "none"
    /\ listening = FALSE
    /\ reminder_rows = << >>
    /\ current_day = 0
    /\ scheduler = NoScheduler
    /\ manual = NoCheck
    /\ fired = << >>
    /\ parent = << >>

\* what the pipeline's own specification leaves at rest
outside_pipeline ==
    << capture_vars, vad_vars, constructor, wake_vars, parsed, rest_vars >>

all_vars == << vars, outside_pipeline >>

States == {"IDLE", "LISTENING", "PROCESSING"}

\* no chunk dequeued yet by the loop task
NoChunk == [state |-> "none", wake |-> FALSE, vad |-> FALSE,
            buffered |-> FALSE, before |-> "none"]

\* the chunk dequeued in state s: whether WakeWordDetector.process and
\* VoiceActivityDetector.process were called with it, whether it was
\* appended to the audio buffer
Given(s, wake_called, vad_called, buffered, last) ==
    [state |-> s, wake |-> wake_called, vad |-> vad_called,
     buffered |-> buffered, before |-> last.state]

TaskPositions == {"none", "get_chunk", "emit_wake", "emit_started",
                  "transcribe", "emit_result", "sleep", "done"}

WAKE == "audio.wake_word_detected"
STARTED == "audio.utterance_started"
COMPLETE == "audio.utterance_complete"
ERROR == "audio.transcription_error"

\* logger.error("audio_pipeline_error") and logger.warning("utterance_too_long")
LOOP_ERROR == "audio_pipeline_error"
TOO_LONG == "utterance_too_long"

\* ---- VoiceActivityDetector

VadReset == [is_speaking |-> FALSE, speech_start_time |-> FALSE,
             last_speech_time |-> FALSE, ring_buffer |-> 0]

\* mutant: a reset() that leaves the ring buffer as it is
VadAfterReset_KeepsRing(v) == [VadReset EXCEPT !.ring_buffer = v.ring_buffer]

\* the pipeline's self._vad.reset()
VadAfterReset(v) == VadReset

Min(a, b) == IF a < b THEN a ELSE b

\* process(): is_speech is the OR of the sub-frame classifications,
\* min_elapsed is  current_time - speech_start_time >= min_speech_duration,
\* silence_elapsed is  current_time - last_speech_time >= max_silence_duration.
VadProcess(v, running, is_speech, min_elapsed, silence_elapsed) ==
    IF ~running
    THEN [vad |-> v, is_speech |-> FALSE, is_speaking |-> FALSE,
          end_of_speech |-> FALSE]
    ELSE
      LET v1 == [v EXCEPT !.ring_buffer = Min(v.ring_buffer + 1, PaddingFrames)]
      IN IF is_speech
         THEN LET v2 == [v1 EXCEPT !.last_speech_time = TRUE]
                  v3 == IF ~v2.is_speaking
                        THEN IF ~v2.speech_start_time
                             THEN [v2 EXCEPT !.speech_start_time = TRUE]
                             ELSE IF min_elapsed
                                  THEN [v2 EXCEPT !.is_speaking = TRUE]
                                  ELSE v2
                        ELSE v2
              IN [vad |-> v3, is_speech |-> TRUE,
                  is_speaking |-> v3.is_speaking, end_of_speech |-> FALSE]
         ELSE IF v1.is_speaking /\ v1.last_speech_time
              THEN IF silence_elapsed
                   THEN [vad |-> VadReset, is_speech |-> FALSE,
                         is_speaking |-> FALSE, end_of_speech |-> TRUE]
                   ELSE [vad |-> v1, is_speech |-> FALSE,
                         is_speaking |-> TRUE, end_of_speech |-> FALSE]
              ELSE LET v2 == IF ~v1.is_speaking
                             THEN [v1 EXCEPT !.speech_start_time = FALSE]
                             ELSE v1
                   IN [vad |-> v2, is_speech |-> FALSE,
                       is_speaking |-> v2.is_speaking, end_of_speech |-> FALSE]

\* get_padding_audio(): None when the ring buffer is empty
PaddingAudio(v) == IF v.ring_buffer = 0 THEN << >> ELSE << "padding" >>

\* ---- WakeWordDetector

\* process(): "none", "detection" or "raise" (the model's predict failed).
\* in_refractory is  current_time - _last_detection_time < refractory_period,
\* hit is  some sub-model score >= threshold.
WakeWordProcess(running, model, in_refractory, predict_fails, hit) ==
    IF ~running \/ ~model THEN "none"
    ELSE IF in_refractory THEN "none"
    ELSE IF predict_fails THEN "raise"
    ELSE IF hit THEN "detection"
    ELSE "none"

\* ---- SpeechToText

NoError == "<absent>"

\* what transcribe() can hand back while running: the engine's text with no
\* error key, or the except branch's empty text with error = str(e), which
\* is the empty string for an exception without a message
SttResults ==
    { [text |-> t, error |-> NoError] : t \in {"", "hello"} }
    \cup { [text |-> "", error |-> e] : e \in {"", "engine failed"} }

NoResult == [outcome |-> "none", text |-> "", error |-> NoError]

Raised == [outcome |-> "raised", text |-> "", error |-> NoError]

Returned(r) == [outcome |-> "returned", text |-> r.text, error |-> r.error]

\* transcribe(): raises RuntimeError when the service is not running,
\* otherwise returns the result r of the engine or of the except branch
SttTranscribe(running, r) == IF ~running THEN Raised ELSE Returned(r)

\* ---- AudioPipeline

\* result.get("error") and result["text"] are tested for truthiness
Truthy(s) == s # NoError /\ s # ""

\* _transcribe_and_emit: the event emitted for a result, or "none"
EventFor(r) ==
    IF Truthy(r.error) THEN ERROR
    ELSE IF Truthy(r.text) THEN COMPLETE
    ELSE "none"

\* mutant: the two emits of _handle_idle in the opposite order
IdleEvents_Swapped == << STARTED, WAKE >>

\* _handle_idle: the events a detection emits, in order
IdleEvents == << WAKE, STARTED >>

Init ==
    /\ pipeline_running = FALSE
    /\ state = "IDLE"
    /\ audio_buffer = << >>
    /\ task = "none"
    /\ capture_running = FALSE
    /\ wake_running = FALSE
    /\ wake_model = FALSE
    /\ wake_detected = FALSE
    /\ vad_running = FALSE
    /\ vad = VadReset
    /\ stt_running = FALSE
    /\ detection = FALSE
    /\ vad_result = FALSE
    /\ stt_result = NoResult
    /\ logged = {}
    /\ events = << >>
    /\ last_call = "none"
    /\ calls = << >>
    /\ call_result = "none"
    /\ given = NoChunk
    /\ CaptureAtRest
    /\ VadAtRest
    /\ constructor = << >>
    /\ WakeAtRest
    /\ parsed = << >>
    /\ RestAtRest

\* ---- AudioPipeline.start()

\* mutant: the wake-word model is loaded before the capture is started
StartOrder_WakeFirst == << "wake_word", "capture", "vad", "stt" >>

\* the order in which start() awaits the components' start()
StartOrder == << "capture", "wake_word", "vad", "stt" >>

Pos(seq, c) == CHOOSE i \in 1..Len(seq) : seq[i] = c

Call(op, outcome) == [op |-> op, outcome |-> outcome]

\* The component start() that raises, if any.  A component that is already
\* running returns at once and cannot raise.  capture: sd.query_devices or
\* sd.InputStream fails; wake_word: the model cannot be loaded; stt: the
\* import in _init_whisper_api fails.  vad.start() cannot raise.
StartFailures == {"none", "capture", "wake_word", "stt"}

Raises(fail, c) ==
    /\ fail = c
    /\ \/ c = "capture" /\ ~capture_running
       \/ c = "wake_word" /\ ~wake_running
       \/ c = "stt" /\ ~stt_running

\* fail: the component whose start() raises; engine_ok: STT finds an engine
\* it can initialise (with none, start() returns with _running still False)
Start(fail, engine_ok) ==
    /\ UNCHANGED outside_pipeline
    /\ last_call' = "start"
    /\ IF pipeline_running
       THEN /\ calls' = << >>
            /\ call_result' = "returned"
            /\ UNCHANGED << pipeline_running, state, audio_buffer, task,
                            capture_running, wake_running, wake_model,
                            wake_detected, vad_running, vad, stt_running,
                            detection, vad_result, stt_result, logged,
                            events, given >>
       ELSE
         LET n == Len(StartOrder)
             failing == { i \in 1..n : Raises(fail, StartOrder[i]) }
             k == IF failing = {} THEN n + 1
                  ELSE CHOOSE i \in failing : \A j \in failing : i <= j
             called(c) == Pos(StartOrder, c) <= k
             completed(c) == Pos(StartOrder, c) < k
         IN /\ calls' = [ i \in 1..Min(k, n) |->
                            Call(StartOrder[i],
                                 IF i = k THEN "raised" ELSE "ok") ]
                        \o (IF k = n + 1 THEN << Call("create_task", "ok") >>
                            ELSE << >>)
            /\ call_result' = IF k = n + 1 THEN "returned" ELSE "raised"
            \* AudioCapture.start sets _running before it opens the device
            /\ capture_running' = (capture_running \/ called("capture"))
            /\ wake_running' = (wake_running \/ completed("wake_word"))
            /\ wake_model' = (wake_model \/ completed("wake_word"))
            /\ vad_running' = (vad_running \/ completed("vad"))
            /\ vad' = IF completed("vad") THEN VadReset ELSE vad
            /\ stt_running' = IF completed("stt") /\ ~stt_running
                              THEN engine_ok ELSE stt_running
            /\ pipeline_running' = (k = n + 1)
            /\ state' = IF k = n + 1 THEN "IDLE" ELSE state
            /\ task' = IF k = n + 1 THEN "get_chunk" ELSE task
            \* the new task starts with fresh locals
            /\ logged' = IF k = n + 1 THEN {} ELSE logged
            /\ detection' = IF k = n + 1 THEN FALSE ELSE detection
            /\ vad_result' = IF k = n + 1 THEN FALSE ELSE vad_result
            /\ given' = IF k = n + 1 THEN NoChunk ELSE given
            /\ UNCHANGED << audio_buffer, wake_detected, stt_result, events >>

\* ---- AudioPipeline.stop()

\* the order in which stop() cancels the loop and awaits the components
StopOrder == << "task", "stt", "vad", "wake_word", "capture" >>

\* mutant: only the cancellation is caught, a timeout escapes stop()
StopCatches_OnlyCancelled(op, exc) == exc = "CancelledError"

\* what stop() catches around each awaited step: the loop task's wait
\* catches CancelledError and TimeoutError, a component's TimeoutError
StopCatches(op, exc) ==
    IF op = "task" THEN exc \in {"CancelledError", "TimeoutError"}
    ELSE exc = "TimeoutError"

\* hang: the step of stop() that exceeds its timeout, if any.  Each
\* component's stop() clears its _running first, so the flag is cleared
\* even when the rest of that stop() outlasts the timeout.
Stop(hang) ==
    /\ UNCHANGED outside_pipeline
    /\ last_call' = "stop"
    /\ IF ~pipeline_running
       THEN /\ calls' = << >>
            /\ call_result' = "returned"
            /\ UNCHANGED << pipeline_running, state, audio_buffer, task,
                            capture_running, wake_running, wake_model,
                            wake_detected, vad_running, vad, stt_running,
                            detection, vad_result, stt_result, logged,
                            events, given >>
       ELSE
         LET n == Len(StopOrder)
             exc(op) == IF hang = op THEN "TimeoutError"
                        ELSE IF op = "task" THEN "CancelledError"
                        ELSE "none"
             escaping == { i \in 1..n : exc(StopOrder[i]) # "none"
                                        /\ ~StopCatches(StopOrder[i], exc(StopOrder[i])) }
             k == IF escaping = {} THEN n + 1
                  ELSE CHOOSE i \in escaping : \A j \in escaping : i <= j
             called(c) == Pos(StopOrder, c) <= k
         IN /\ pipeline_running' = FALSE
            /\ calls' = [ i \in 1..Min(k, n) |->
                            Call(StopOrder[i],
                                 IF hang = StopOrder[i] THEN "timeout" ELSE "ok") ]
            /\ call_result' = IF k = n + 1 THEN "returned" ELSE "raised"
            /\ task' = IF called("task") THEN "done" ELSE task
            /\ stt_running' = (stt_running /\ ~called("stt"))
            /\ vad_running' = (vad_running /\ ~called("vad"))
            /\ wake_running' = (wake_running /\ ~called("wake_word"))
            /\ capture_running' = (capture_running /\ ~called("capture"))
            /\ UNCHANGED << state, audio_buffer, wake_model, wake_detected,
                            vad, detection, vad_result, stt_result,
                            logged, events, given >>

\* ---- AudioPipeline._process_loop

\* mutant: an exception of an iteration ends the loop
AfterException_Exits(running) == "done"

\* the except branches of the loop: where the task goes after an exception
\* of an iteration ("sleep": the brief pause before the next iteration)
AfterException(running) == IF running THEN "sleep" ELSE "done"

\* mutant: an utterance that passes the ceiling is transcribed
ListeningBranch_CeilingTranscribes(end_of_speech, n) ==
    IF end_of_speech \/ n > SafetyCeiling THEN "transcribe" ELSE "continue"

\* mutant: a chunk dequeued in PROCESSING goes to _handle_listening
Dispatch_ProcessingListens(s) ==
    IF s = "IDLE" THEN "idle" ELSE "listening"

\* mutant: the ceiling is never applied
ListeningBranch_NoCeiling(end_of_speech, n) ==
    IF end_of_speech THEN "transcribe" ELSE "continue"

\* _handle_listening: what to do once the chunk is appended and the VAD
\* has answered; n is the buffer length after the append
ListeningBranch(end_of_speech, n) ==
    IF end_of_speech THEN "transcribe"
    ELSE IF n > SafetyCeiling THEN "abandon"
    ELSE "continue"

\* the state on which an iteration dispatches its chunk
Dispatch(s) ==
    IF s = "IDLE" THEN "idle"
    ELSE IF s = "LISTENING" THEN "listening"
    ELSE "skip"

Awaiting(pos) == pipeline_running /\ task = pos

\* get_chunk returned a chunk in IDLE: _handle_idle up to its first await
HandleIdle(in_refractory, predict_fails, hit) ==
    /\ UNCHANGED outside_pipeline
    /\ Awaiting("get_chunk") /\ capture_running
    /\ Dispatch(state) = "idle"
    /\ LET r == WakeWordProcess(wake_running, wake_model,
                                wake_detected /\ in_refractory,
                                predict_fails, hit)
       IN \/ /\ r = "none"
             /\ detection' = FALSE
             /\ UNCHANGED << wake_detected, events, task, logged >>
          \/ /\ r = "raise"
             /\ detection' = FALSE
             /\ logged' = logged \cup {LOOP_ERROR}
             /\ task' = AfterException(pipeline_running)
             /\ UNCHANGED << wake_detected, events >>
          \/ /\ r = "detection"
             /\ Len(events) + 3 <= MaxEvents
             /\ wake_detected' = TRUE
             /\ detection' = TRUE
             /\ events' = Append(events, IdleEvents[1])
             /\ task' = "emit_wake"
             /\ UNCHANGED logged
    /\ given' = Given(state, TRUE, FALSE, FALSE, given)
    /\ UNCHANGED << pipeline_running, state, audio_buffer, capture_running,
                    wake_running, wake_model, vad_running, vad, stt_running,
                    vad_result, stt_result, last_call, calls, call_result >>

\* emit("audio.wake_word_detected") returned: the transition to LISTENING
EnterListening ==
    /\ UNCHANGED outside_pipeline
    /\ Awaiting("emit_wake")
    /\ state' = "LISTENING"
    /\ audio_buffer' = PaddingAudio(vad)
    /\ vad' = VadAfterReset(vad)
    /\ events' = Append(events, IdleEvents[2])
    /\ task' = "emit_started"
    /\ UNCHANGED << pipeline_running, capture_running, wake_running,
                    wake_model, wake_detected, vad_running, stt_running,
                    detection, vad_result, stt_result, logged,
                    last_call, calls, call_result, given >>

\* emit("audio.utterance_started") returned: _handle_idle is over
IdleHandled ==
    /\ UNCHANGED outside_pipeline
    /\ Awaiting("emit_started")
    /\ detection' = FALSE
    /\ task' = "get_chunk"
    /\ UNCHANGED << pipeline_running, state, audio_buffer, capture_running,
                    wake_running, wake_model, wake_detected, vad_running,
                    vad, stt_running, vad_result, stt_result, logged,
                    events, last_call, calls, call_result, given >>

\* get_chunk returned a chunk in LISTENING: _handle_listening up to its await
HandleListening(is_speech, min_elapsed, silence_elapsed) ==
    /\ UNCHANGED outside_pipeline
    /\ Awaiting("get_chunk") /\ capture_running
    /\ Dispatch(state) = "listening"
    /\ LET buffered == Append(audio_buffer, "chunk")
           res == VadProcess(vad, vad_running, is_speech, min_elapsed,
                             silence_elapsed)
           branch == ListeningBranch(res.end_of_speech, Len(buffered))
           \* transcribe() raises before its first await when not running
           called == SttTranscribe(stt_running, NoResult)
       IN /\ vad_result' = res.end_of_speech
          /\ \/ /\ branch = "transcribe"
                /\ state' = "PROCESSING"
                /\ audio_buffer' = << >>
                /\ vad' = res.vad
                /\ IF called.outcome = "raised"
                   THEN /\ stt_result' = called
                        /\ logged' = logged \cup {LOOP_ERROR}
                        /\ task' = AfterException(pipeline_running)
                   ELSE /\ task' = "transcribe"
                        /\ UNCHANGED << stt_result, logged >>
             \/ /\ branch = "abandon"
                /\ logged' = logged \cup {TOO_LONG}
                /\ audio_buffer' = << >>
                /\ vad' = VadAfterReset(vad)
                /\ state' = "IDLE"
                /\ UNCHANGED << task, stt_result >>
             \/ /\ branch = "continue"
                /\ audio_buffer' = buffered
                /\ vad' = res.vad
                /\ UNCHANGED << state, task, stt_result, logged >>
    /\ given' = Given(state, FALSE, TRUE, TRUE, given)
    /\ UNCHANGED << pipeline_running, capture_running, wake_running,
                    wake_model, wake_detected, vad_running, stt_running,
                    detection, events, last_call, calls, call_result >>

\* back to idle: the end of _handle_listening after _transcribe_and_emit
BackToIdle ==
    /\ vad' = VadAfterReset(vad)
    /\ state' = "IDLE"
    /\ vad_result' = FALSE
    /\ task' = "get_chunk"

\* transcribe() returned r: the rest of _transcribe_and_emit up to its emit
Transcribed(r) ==
    /\ UNCHANGED outside_pipeline
    /\ Awaiting("transcribe")
    /\ stt_result' = SttTranscribe(stt_running, r)
    /\ LET ev == EventFor(r)
       IN IF ev = "none"
          THEN BackToIdle /\ UNCHANGED events
          ELSE /\ events' = Append(events, ev)
               /\ task' = "emit_result"
               /\ UNCHANGED << state, vad, vad_result >>
    /\ UNCHANGED << pipeline_running, audio_buffer, capture_running,
                    wake_running, wake_model, wake_detected, vad_running,
                    stt_running, detection, logged, last_call, calls,
                    call_result, given >>

\* the emit of _transcribe_and_emit returned
Emitted ==
    /\ UNCHANGED outside_pipeline
    /\ Awaiting("emit_result")
    /\ BackToIdle
    /\ UNCHANGED << pipeline_running, audio_buffer, capture_running,
                    wake_running, wake_model, wake_detected, vad_running,
                    stt_running, detection, stt_result, logged, events,
                    last_call, calls, call_result, given >>

\* get_chunk returned a chunk in PROCESSING: no handler takes it
SkipChunk ==
    /\ UNCHANGED outside_pipeline
    /\ Awaiting("get_chunk") /\ capture_running
    /\ Dispatch(state) = "skip"
    /\ given' = Given(state, FALSE, FALSE, FALSE, given)
    /\ UNCHANGED << pipeline_running, state, audio_buffer, task,
                    capture_running, wake_running, wake_model, wake_detected,
                    vad_running, vad, stt_running, detection, vad_result,
                    stt_result, logged, events, last_call, calls,
                    call_result >>

\* the pause after a caught exception is over
Resume ==
    /\ UNCHANGED outside_pipeline
    /\ Awaiting("sleep")
    /\ task' = "get_chunk"
    /\ UNCHANGED << pipeline_running, state, audio_buffer, capture_running,
                    wake_running, wake_model, wake_detected, vad_running,
                    vad, stt_running, detection, vad_result, stt_result,
                    logged, events, last_call, calls, call_result, given >>

LoopStep ==
    \/ \E in_refractory, predict_fails, hit \in BOOLEAN :
          HandleIdle(in_refractory, predict_fails, hit)
    \/ EnterListening
    \/ IdleHandled
    \/ \E is_speech, min_elapsed, silence_elapsed \in BOOLEAN :
          HandleListening(is_speech, min_elapsed, silence_elapsed)
    \/ \E r \in SttResults : Transcribed(r)
    \/ Emitted
    \/ SkipChunk
    \/ Resume

StopHangs == {"none"} \cup { StopOrder[i] : i \in 1..Len(StopOrder) }

Next ==
    \/ \E fail \in StartFailures, engine_ok \in BOOLEAN : Start(fail, engine_ok)
    \/ \E hang \in StopHangs : Stop(hang)
    \/ LoopStep

Spec == Init /\ [][Next]_all_vars

\* ---- properties

\* a step of the processing loop: no start() or stop() call is made in it
LoopStepTaken ==
    /\ pipeline_running /\ pipeline_running'
    /\ UNCHANGED << last_call, calls, call_result >>

\* C1: the pipeline enters the running state in IDLE, and while it runs its
\* state changes only IDLE->LISTENING (on a wake-word detection),
\* LISTENING->PROCESSING (on the VAD's end_of_speech), PROCESSING->IDLE
\* (out of _transcribe_and_emit) and LISTENING->IDLE (the safety ceiling,
\* without end_of_speech); never IDLE->PROCESSING or PROCESSING->LISTENING.
C1_StateEdges ==
    [][ /\ (~pipeline_running /\ pipeline_running') => state' = "IDLE"
        /\ (pipeline_running /\ pipeline_running' /\ state' # state) =>
              \/ /\ state = "IDLE" /\ state' = "LISTENING"
                 /\ detection
              \/ /\ state = "LISTENING" /\ state' = "PROCESSING"
                 /\ vad_result'
              \/ /\ state = "PROCESSING" /\ state' = "IDLE"
                 /\ task \in {"transcribe", "emit_result"}
              \/ /\ state = "LISTENING" /\ state' = "IDLE"
                 /\ ~vad_result'
                 /\ Len(audio_buffer) + 1 > SafetyCeiling ]_vars

\* C1 witness: a running pipeline back in IDLE after a whole utterance
\* (wake word, end of speech, transcription, event)
C1_Witness ==
    /\ pipeline_running /\ state = "IDLE" /\ task = "get_chunk"
    /\ Len(events) >= 3 /\ events[Len(events)] = COMPLETE

\* C2: the audio buffer is non-empty only in LISTENING or PROCESSING; in
\* IDLE it is empty (after any sequence of start(), stop() and chunks)
C2_BufferOnlyWhileRecording ==
    audio_buffer # << >> => state \in {"LISTENING", "PROCESSING"}

\* C3: every utterance ends: a running pipeline that has reached PROCESSING
\* is back in IDLE when the iteration that took it there is over, whether
\* the transcription succeeded, reported an error or failed.  Stated on the
\* iteration's end: between two iterations (the task awaits the next chunk,
\* or pauses after an exception) the running pipeline is not in PROCESSING.
\* No handler takes a chunk in PROCESSING (SkipChunk), so a pipeline that is
\* in PROCESSING between iterations stays there until stop().
C3_ProcessingEnds ==
    (pipeline_running /\ task \in {"get_chunk", "sleep"}) => state # "PROCESSING"

\* C3, why such a state is final: from a running pipeline in PROCESSING
\* between two iterations, no step of the running pipeline changes the state
StuckInProcessing ==
    [][ ( /\ pipeline_running /\ pipeline_running'
          /\ state = "PROCESSING" /\ task \in {"get_chunk", "sleep"} )
        => state' = "PROCESSING" ]_vars

\* C4: in LISTENING, a chunk that takes the buffer past the ceiling without
\* end_of_speech makes the handler clear the buffer, reset the VAD and go
\* to IDLE, with no transcribe() call and no event; so the buffer never
\* holds more than ceiling + 1 entries.
C4_SafetyCeiling ==
    /\ [](Len(audio_buffer) <= SafetyCeiling + 1)
    /\ [][ ( /\ LoopStepTaken
             /\ state = "LISTENING" /\ task = "get_chunk"
             /\ Len(audio_buffer) + 1 > SafetyCeiling
             /\ ~vad_result' )
           => ( /\ audio_buffer' = << >>
                /\ vad' = VadReset
                /\ state' = "IDLE"
                /\ task' = "get_chunk"
                /\ UNCHANGED << events, stt_result >> ) ]_vars

\* C4 witness: the pipeline is back in IDLE after it abandoned an utterance
\* at the ceiling, with nothing emitted since utterance_started
C4_Witness ==
    /\ pipeline_running /\ state = "IDLE" /\ audio_buffer = << >>
    /\ TOO_LONG \in logged
    /\ events = << WAKE, STARTED >>
    /\ stt_result = NoResult

\* C5: SpeechToText.transcribe never raises; every failure comes back as a
\* result
C5_TranscribeNeverRaises == stt_result.outcome # "raised"

\* C6: _transcribe_and_emit emits, for the result transcribe() returned:
\* exactly one transcription_error if the result has an error; otherwise
\* exactly one utterance_complete if the text is non-empty; otherwise
\* nothing.  Nothing more is emitted while that emit is awaited.
C6_OneEventPerResult ==
    [][ /\ (LoopStepTaken /\ task = "transcribe") =>
              IF stt_result'.error # NoError
              THEN events' = Append(events, ERROR)
              ELSE IF stt_result'.text # ""
                   THEN events' = Append(events, COMPLETE)
                   ELSE events' = events
        /\ (LoopStepTaken /\ task = "emit_result") => events' = events ]_vars

Completion == {COMPLETE, ERROR}

\* C7: in the emitted sequence every utterance_started directly follows a
\* wake_word_detected, and every utterance_complete / transcription_error
\* follows an utterance_started with no other utterance_started and no
\* other completion or error in between
C7_EventOrder ==
    \A i \in 1..Len(events) :
        /\ events[i] = STARTED => (i > 1 /\ events[i - 1] = WAKE)
        /\ events[i] \in Completion =>
              \E j \in 1..(i - 1) :
                  /\ events[j] = STARTED
                  /\ \A k \in (j + 1)..(i - 1) :
                        events[k] \notin Completion \cup {STARTED}

\* C7 witness: two utterances in a row, each with its three events
C7_Witness ==
    /\ Len(events) = 6
    /\ events[3] \in Completion /\ events[6] \in Completion

\* C8: while the pipeline runs, the loop task has not ended, whatever an
\* iteration raised; an exception caught in an iteration is followed by the
\* pause, and the task ends only with stop()
C8_LoopSurvives ==
    /\ [](pipeline_running => task \in TaskPositions \ {"none", "done"})
    /\ [][ (LoopStepTaken /\ LOOP_ERROR \notin logged /\ LOOP_ERROR \in logged')
             => task' = "sleep" ]_vars
    /\ [][ (task # "done" /\ task' = "done")
             => (~pipeline_running' /\ last_call' = "stop") ]_vars

\* C8 witness: the loop awaits the next chunk after an iteration in which
\* transcribe() raised, and after the pause
C8_Witness ==
    /\ pipeline_running /\ task = "get_chunk"
    /\ LOOP_ERROR \in logged /\ stt_result.outcome = "raised"

Ops(cs) == [ i \in 1..Len(cs) |-> cs[i].op ]

IsPrefix(a, b) == Len(a) <= Len(b) /\ a = SubSeq(b, 1, Len(a))

\* everything but the record of the life-cycle calls
Program == << pipeline_running, state, audio_buffer, task, capture_running,
              wake_running, wake_model, wake_detected, vad_running, vad,
              stt_running, detection, vad_result, stt_result, logged,
              events >>

\* a start() or stop() call is made in this step
CallMade(name) ==
    /\ last_call' = name
    /\ << last_call, calls, call_result >> # << last_call', calls', call_result' >>

\* C9: start() starts capture, wake word, VAD, STT in this order, each once,
\* and creates the loop task after the four; stop() cancels the loop task
\* and then stops STT, VAD, wake word, capture; start() on a running
\* pipeline and stop() on a stopped one do nothing
C9_StartStopOrder ==
    /\ [] /\ (last_call = "start" /\ calls # << >>) =>
               IF call_result = "returned"
               THEN Ops(calls) = << "capture", "wake_word", "vad", "stt",
                                    "create_task" >>
               ELSE IsPrefix(Ops(calls), << "capture", "wake_word", "vad", "stt" >>)
          /\ (last_call = "stop" /\ calls # << >>) =>
               Ops(calls) = << "task", "stt", "vad", "wake_word", "capture" >>
    /\ [][ /\ (CallMade("start") /\ pipeline_running) =>
                (calls' = << >> /\ UNCHANGED Program)
           /\ (CallMade("stop") /\ ~pipeline_running) =>
                (calls' = << >> /\ UNCHANGED Program)
           /\ (CallMade("start") /\ ~pipeline_running) => calls' # << >>
           /\ (CallMade("stop") /\ pipeline_running) => calls' # << >> ]_vars

\* C9 witness: a stop() that ran to its end, after a start() that did
C9_Witness ==
    /\ last_call = "stop" /\ call_result = "returned" /\ Len(calls) = 5
    /\ ~pipeline_running /\ ~capture_running /\ task = "done"

Components == {"stt", "vad", "wake_word", "capture"}

RingEmptyInIdle ==
    (pipeline_running /\ state = "IDLE") => vad.ring_buffer = 0

\* C25: when a wake word is detected after at least one chunk was received
\* in IDLE, the utterance buffer at the start of LISTENING begins with the
\* padding audio of the chunks before the trigger
C25_PaddingBeforeWake ==
    [][ (/\ pipeline_running
         /\ state = "IDLE" /\ state' = "LISTENING"
         /\ given.state = "IDLE" /\ given.before = "IDLE")
           => /\ audio_buffer' # << >>
              /\ audio_buffer'[1] = "padding" ]_vars

\* C26: the VAD is in its reset state (not speaking, no start or last
\* speech time, ring buffer empty) whenever the running pipeline is in IDLE
\* between two chunks, and at the moment the pipeline enters LISTENING;
\* after a wake word, a transcription and an abandoned utterance alike
C26_VadResetAtBoundaries ==
    /\ []((pipeline_running /\ state = "IDLE"
              /\ task \in {"get_chunk", "sleep"})
            => /\ ~vad.is_speaking
               /\ ~vad.speech_start_time
               /\ ~vad.last_speech_time
               /\ vad.ring_buffer = 0)
    /\ [][ (state # "LISTENING" /\ state' = "LISTENING")
             => /\ ~vad'.is_speaking
                /\ ~vad'.speech_start_time
                /\ ~vad'.last_speech_time
                /\ vad'.ring_buffer = 0 ]_vars

\* the running pipeline is back in IDLE, waiting for a chunk, after an
\* utterance was abandoned at the safety ceiling and one was transcribed
C26_Witness ==
    /\ pipeline_running /\ state = "IDLE" /\ task = "get_chunk"
    /\ given.state = "LISTENING"
    /\ TOO_LONG \in logged
    /\ \E i \in 1..Len(events) : events[i] \in {COMPLETE, ERROR}

\* C27: a dequeued chunk goes to at most one detector, chosen by the state
\* at the dequeue: WakeWordDetector.process only in IDLE,
\* VoiceActivityDetector.process only in LISTENING, and in PROCESSING
\* neither, and the chunk is not buffered
C27_OneDetectorPerChunk ==
    /\ [](/\ ~(given.wake /\ given.vad)
          /\ given.wake => given.state = "IDLE"
          /\ given.vad => given.state = "LISTENING"
          /\ given.state = "PROCESSING" =>
                ~given.wake /\ ~given.vad /\ ~given.buffered)
    /\ [][ (pipeline_running /\ pipeline_running' /\ task = "get_chunk"
            /\ UNCHANGED << last_call, calls, call_result >>)
             => /\ state = "IDLE" =>
                      /\ UNCHANGED << vad, audio_buffer, vad_result >>
                /\ state = "LISTENING" =>
                      /\ UNCHANGED << wake_detected, detection >>
                /\ state = "PROCESSING" =>
                      /\ UNCHANGED << vad, audio_buffer, vad_result,
                                      wake_detected, detection, state,
                                      events >> ]_vars

\* a chunk was dequeued while the pipeline was stuck in PROCESSING, the
\* chunk before it having ended an utterance
C27_Witness ==
    /\ pipeline_running
    /\ given.state = "PROCESSING" /\ given.before = "LISTENING"

\* ======================================================================
\* AudioCapture on its own: the audio thread that runs _audio_callback,
\* the event loop that runs what call_soon_threadsafe handed over, and a
\* consumer calling get_chunk.  start() and stop() hold no await, so each
\* is one step of the loop; the audio thread interleaves with the loop
\* between its checks and its call_soon_threadsafe.
\* ======================================================================

\* asyncio.Queue(maxsize=100).  The model keeps put_nowait's comparison and
\* scales the capacity down so that the queue fills within the chunks below.
QueueMaxsize == 2

\* chunks the device produces in a run
MaxChunks == 5

\* what CaptureSpec leaves at rest
outside_capture == << pipeline_running, state, audio_buffer, task,
                      wake_running, wake_model, wake_detected, vad_running,
                      vad, stt_running, detection, vad_result, stt_result,
                      logged, events, last_call, calls, call_result, given,
                      vad_vars, constructor, wake_vars, parsed, rest_vars >>

\* mutant: a queue built without maxsize never raises QueueFull
PutNowait_Unbounded(q, chunk) == [queue |-> Append(q, chunk), raised |-> FALSE]

\* asyncio.Queue.put_nowait on the queue of capacity QueueMaxsize
PutNowait(q, chunk) ==
    IF Len(q) >= QueueMaxsize
    THEN [queue |-> q, raised |-> TRUE]
    ELSE [queue |-> Append(q, chunk), raised |-> FALSE]

Drop(chunks, why) == { << c, why >> : c \in chunks }

Range(seq) == { seq[i] : i \in 1..Len(seq) }

\* start(): _running is set before the device is queried and the stream
\* opened, either of which may raise
CaptureStart(fails) ==
    /\ IF capture_running
       THEN UNCHANGED << capture_running, stream >>
       ELSE /\ capture_running' = TRUE
            /\ stream' = ~fails
    /\ UNCHANGED << callback, loop_ready, audio_queue, produced, returned,
                    dropped >>
    /\ UNCHANGED outside_capture

\* stop(): clears the flag, aborts the stream, empties the queue
CaptureStop ==
    /\ IF ~capture_running
       THEN UNCHANGED << capture_running, stream, audio_queue, dropped >>
       ELSE /\ capture_running' = FALSE
            /\ stream' = FALSE
            /\ audio_queue' = << >>
            /\ dropped' = dropped \cup Drop(Range(audio_queue), "stop")
    /\ UNCHANGED << callback, loop_ready, produced, returned >>
    /\ UNCHANGED outside_capture

\* _audio_callback, up to its checks of _running and _loop: the device
\* hands over the next chunk
CallbackEnter ==
    /\ stream /\ callback = 0
    /\ produced < MaxChunks
    /\ produced' = produced + 1
    /\ IF capture_running
       THEN callback' = produced' /\ UNCHANGED dropped
       ELSE /\ dropped' = dropped \cup Drop({produced'}, "not_running")
            /\ UNCHANGED callback
    /\ UNCHANGED << capture_running, stream, loop_ready, audio_queue,
                    returned >>
    /\ UNCHANGED outside_capture

\* _audio_callback: loop.call_soon_threadsafe(put_nowait, chunk) returns at
\* once; the put itself is left to the loop
CallbackSchedule ==
    /\ callback # 0
    /\ loop_ready' = Append(loop_ready, callback)
    /\ callback' = 0
    /\ UNCHANGED << capture_running, stream, audio_queue, produced,
                    returned, dropped >>
    /\ UNCHANGED outside_capture

\* the loop runs the oldest put_nowait handed over; QueueFull is raised in
\* the loop, which drops the chunk
RunReady ==
    /\ loop_ready # << >>
    /\ LET chunk == Head(loop_ready)
           put == PutNowait(audio_queue, chunk)
       IN /\ audio_queue' = put.queue
          /\ dropped' = IF put.raised
                        THEN dropped \cup Drop({chunk}, "full")
                        ELSE dropped
    /\ loop_ready' = Tail(loop_ready)
    /\ UNCHANGED << capture_running, stream, callback, produced, returned >>
    /\ UNCHANGED outside_capture

\* get_chunk(): the oldest chunk of the queue (None, when not running or
\* on timeout, changes nothing)
GetChunk ==
    /\ capture_running
    /\ audio_queue # << >>
    /\ returned' = Append(returned, Head(audio_queue))
    /\ audio_queue' = Tail(audio_queue)
    /\ UNCHANGED << capture_running, stream, callback, loop_ready, produced,
                    dropped >>
    /\ UNCHANGED outside_capture

CaptureNext ==
    \/ \E fails \in BOOLEAN : CaptureStart(fails)
    \/ CaptureStop
    \/ CallbackEnter
    \/ CallbackSchedule
    \/ RunReady
    \/ GetChunk

CaptureSpec == Init /\ [][CaptureNext]_all_vars

\* C11: the queue never holds more than its capacity; the audio thread is
\* never blocked (it can take the next chunk whatever the queue holds, and
\* its hand-over is always possible); a put on a full queue drops that
\* chunk and leaves the queue as it is; the chunks returned by get_chunk
\* are chunks produced, each once, in the order produced.
C11_QueueBounded ==
    /\ [] ( /\ Len(audio_queue) <= QueueMaxsize
            /\ \A i \in 1..Len(returned) : returned[i] \in 1..produced
            /\ \A i, j \in 1..Len(returned) :
                  i < j => returned[i] < returned[j]
            /\ (stream /\ callback = 0 /\ produced < MaxChunks)
                  => ENABLED CallbackEnter
            /\ callback # 0 => ENABLED CallbackSchedule )
    /\ [][ (loop_ready # << >> /\ loop_ready' = Tail(loop_ready)
            /\ Len(audio_queue) = QueueMaxsize)
           => ( /\ audio_queue' = audio_queue
                /\ << Head(loop_ready), "full" >> \in dropped' ) ]_all_vars

\* a chunk was dropped on a full queue, and a chunk produced after it was
\* returned after two earlier ones
C11_Witness ==
    /\ Len(returned) >= 3
    /\ \E c \in 1..produced :
          /\ << c, "full" >> \in dropped
          /\ returned[Len(returned)] > c
          /\ returned[1] < c

\* ======================================================================
\* VoiceActivityDetector on its own, with its clock: process(), reset(),
\* start() and stop() called in any order.  Time is counted in ticks;
\* every process() call reads a clock that has advanced since the last one.
\* ======================================================================

\* min_speech_duration and max_silence_duration, in ticks (the source's
\* defaults are 0.25 s and 0.8 s; the comparisons are kept)
MinSpeech == 2
MaxSilence == 2

\* one frame (frame_duration_ms), in ticks
FrameTicks == 1

\* the clock stops here, and advances by at most MaxStep between two calls
MaxTime == 7
MaxStep == 2

\* what VadSpec leaves at rest
outside_vad ==
    << vars, capture_vars, constructor, wake_vars, parsed, rest_vars >>

\* the classifier's answer on each complete sub-frame of a chunk:
\* "speech", "silence", or "error" when webrtcvad raises
FrameAnswers == {"speech", "silence", "error"}
Chunks == {<< >>} \cup { << a >> : a \in FrameAnswers }
          \cup { << a, b >> : a, b \in FrameAnswers }

\* mutant: a sub-frame on which the classifier fails counts as speech
ChunkIsSpeech_ErrorIsSpeech(frames) ==
    \E i \in 1..Len(frames) : frames[i] \in {"speech", "error"}

\* mutant: the first failure of the classifier ends the loop over the
\* sub-frames
ChunkIsSpeech_StopsAtError(frames) ==
    \E i \in 1..Len(frames) :
        /\ frames[i] = "speech"
        /\ \A j \in 1..(i - 1) : frames[j] # "error"

\* process(): is_speech_frames and its aggregation; a failed sub-frame is
\* appended as False, and no sub-frame at all is non-speech
ChunkIsSpeech(frames) ==
    LET is_speech_frames ==
            [i \in 1..Len(frames) |->
                IF frames[i] = "error" THEN FALSE ELSE frames[i] = "speech"]
    IN IF Len(frames) > 0
       THEN \E i \in 1..Len(frames) : is_speech_frames[i]
       ELSE FALSE

\* mutant: reset() that leaves the ring buffer as it is
ResetVad_KeepsRing(v) ==
    [v EXCEPT !.is_speaking = FALSE, !.speech_start_time = None,
              !.last_speech_time = None, !.triggered = FALSE]

\* reset()
ResetVad(v) ==
    [v EXCEPT !.is_speaking = FALSE, !.speech_start_time = None,
              !.last_speech_time = None, !.triggered = FALSE,
              !.ring_buffer = 0]

\* start(): sets the flag, then reset()
StartVad(v) == ResetVad([v EXCEPT !.running = TRUE])

\* stop()
StopVad(v) == [v EXCEPT !.running = FALSE]

\* the dict process() returns; the early return of a detector that is not
\* running has no speech_duration key
Result(is_speech, is_speaking, end_of_speech, speech_duration) ==
    [is_speech |-> is_speech, is_speaking |-> is_speaking,
     end_of_speech |-> end_of_speech, has_duration |-> TRUE,
     speech_duration |-> speech_duration]

NotRunningResult ==
    [is_speech |-> FALSE, is_speaking |-> FALSE, end_of_speech |-> FALSE,
     has_duration |-> FALSE, speech_duration |-> 0]

\* mutant: the flag is set by the second speech chunk, whatever time passed
SpeechConfirmed_AtOnce(now, speech_start_time) == TRUE

\* process(): current_time - self._speech_start_time >= min_speech_duration
SpeechConfirmed(now, speech_start_time) ==
    now - speech_start_time >= MinSpeech

\* mutant: the end of speech does not reset the detector
AfterEndOfSpeech_NoReset(v) == v

\* process(): self.reset() once the end of speech is found
AfterEndOfSpeech(v) == ResetVad(v)

\* process() at clock reading now, on a chunk with these sub-frame answers
VadProcessAt(v, now, frames) ==
    IF ~v.running
    THEN [vad |-> v, ret |-> NotRunningResult]
    ELSE
      LET is_speech == ChunkIsSpeech(frames)
          v1 == [v EXCEPT !.ring_buffer = Min(v.ring_buffer + 1, PaddingFrames)]
      IN IF is_speech
         THEN LET v2 == [v1 EXCEPT !.last_speech_time = now]
                  v3 == IF ~v2.is_speaking
                        THEN IF v2.speech_start_time = None
                             THEN [v2 EXCEPT !.speech_start_time = now]
                             ELSE IF SpeechConfirmed(now, v2.speech_start_time)
                                  THEN [v2 EXCEPT !.is_speaking = TRUE,
                                                  !.triggered = TRUE]
                                  ELSE v2
                        ELSE v2
              IN [vad |-> v3, ret |-> Result(TRUE, v3.is_speaking, FALSE, 0)]
         ELSE IF v1.is_speaking /\ v1.last_speech_time # None
              THEN LET silence_duration == now - v1.last_speech_time
                   IN IF silence_duration >= MaxSilence
                      THEN LET start == IF v1.speech_start_time # None
                                        THEN v1.speech_start_time ELSE now
                               v2 == AfterEndOfSpeech(v1)
                           IN [vad |-> v2,
                               ret |-> Result(FALSE, v2.is_speaking, TRUE,
                                              now - start)]
                      ELSE [vad |-> v1, ret |-> Result(FALSE, TRUE, FALSE, 0)]
              ELSE LET v2 == IF ~v1.is_speaking
                             THEN [v1 EXCEPT !.speech_start_time = None]
                             ELSE v1
                   IN [vad |-> v2,
                       ret |-> Result(FALSE, v2.is_speaking, FALSE, 0)]

\* one process() call as the log keeps it: when it was made, whether the
\* detector was running, whether some sub-frame was speech, whether the
\* classifier failed on some sub-frame, and the result
CallRecord(now, running, frames, ret) ==
    [t |-> now, ran |-> running,
     speech |-> \E i \in 1..Len(frames) : frames[i] = "speech",
     failed |-> \E i \in 1..Len(frames) : frames[i] = "error",
     ret |-> ret]

VadProcessCall(delta, frames) ==
    /\ vad_time + delta <= MaxTime
    /\ LET now == vad_time + delta
           r == VadProcessAt(vad_state, now, frames)
       IN /\ vad_state' = r.vad
          /\ vad_time' = now
          /\ vad_calls' = Append(vad_calls,
                                 CallRecord(now, vad_state.running, frames, r.ret))
    /\ UNCHANGED outside_vad

VadResetCall ==
    /\ vad_state' = ResetVad(vad_state)
    /\ vad_calls' = << >>
    /\ UNCHANGED vad_time
    /\ UNCHANGED outside_vad

VadStartCall ==
    /\ vad_state' = StartVad(vad_state)
    /\ vad_calls' = << >>
    /\ UNCHANGED vad_time
    /\ UNCHANGED outside_vad

VadStopCall ==
    /\ vad_state' = StopVad(vad_state)
    /\ UNCHANGED << vad_time, vad_calls >>
    /\ UNCHANGED outside_vad

VadNext ==
    \/ \E delta \in 1..MaxStep, frames \in Chunks : VadProcessCall(delta, frames)
    \/ VadResetCall
    \/ VadStartCall
    \/ VadStopCall

VadSpec == Init /\ [][VadNext]_all_vars

\* the abstraction of the detector the pipeline's specification uses
\* (timestamps as set / not set, elapsed times as inputs) agrees with the
\* detector on every call that can be made next
VadAbstract(v) ==
    [is_speaking |-> v.is_speaking,
     speech_start_time |-> v.speech_start_time # None,
     last_speech_time |-> v.last_speech_time # None,
     ring_buffer |-> v.ring_buffer]

VadAbstraction ==
    \A delta \in 1..MaxStep, frames \in Chunks :
        LET now == vad_time + delta
            r == VadProcessAt(vad_state, now, frames)
            a == VadProcess(VadAbstract(vad_state), vad_state.running,
                            ChunkIsSpeech(frames),
                            now - vad_state.speech_start_time >= MinSpeech,
                            now - vad_state.last_speech_time >= MaxSilence)
        IN /\ VadAbstract(r.vad) = a.vad
           /\ r.ret.is_speech = a.is_speech
           /\ r.ret.is_speaking = a.is_speaking
           /\ r.ret.end_of_speech = a.end_of_speech

\* ---- properties of the detector

\* every call of the log was made on a running detector
AllRan == \A i \in 1..Len(vad_calls) : vad_calls[i].ran

\* call j is the one that set the speaking flag that is still set
SetsFlag(j) ==
    /\ \A k \in j..Len(vad_calls) : vad_calls[k].ret.is_speaking
    /\ j > 1 => ~vad_calls[j - 1].ret.is_speaking

\* C12 as stated: on a running detector, is_speaking is set only if
\* speech_start_time is set, every chunk processed since speech_start_time
\* was speech, and the chunk that set the flag came at least
\* min_speech_duration after speech_start_time; a non-speech chunk before
\* the flag is set leaves speech_start_time unset.
C12_AllSpeechSinceStart ==
    (vad_state.running /\ AllRan) =>
        LET start == vad_state.speech_start_time
            n == Len(vad_calls)
        IN /\ vad_state.is_speaking =>
                /\ start # None
                /\ \A i \in 1..n :
                      vad_calls[i].t >= start => vad_calls[i].speech
                /\ \E j \in 1..n :
                      SetsFlag(j) /\ vad_calls[j].t - start >= MinSpeech
           /\ (~vad_state.is_speaking /\ n > 0 /\ ~vad_calls[n].speech)
                => start = None

\* C12 as amended: on a running detector, is_speaking is set only if
\* speech_start_time is set, is the time of a processed chunk, every chunk
\* processed from then up to the chunk that set the flag was speech, and
\* that chunk came at least min_speech_duration after speech_start_time
\* (chunks after it may be non-speech); a non-speech chunk before the flag
\* is set leaves speech_start_time unset.
C12_SpeakingOnlyAfterSpeech ==
    (vad_state.running /\ AllRan) =>
        LET start == vad_state.speech_start_time
            n == Len(vad_calls)
        IN /\ vad_state.is_speaking =>
                /\ start # None
                /\ \E j \in 1..n :
                      /\ SetsFlag(j)
                      /\ vad_calls[j].t - start >= MinSpeech
                      /\ \E i \in 1..j : vad_calls[i].t = start
                      /\ \A i \in 1..j :
                            vad_calls[i].t >= start => vad_calls[i].speech
           /\ (~vad_state.is_speaking /\ n > 0 /\ ~vad_calls[n].speech)
                => start = None

\* the flag is set, and a pause shorter than max_silence_duration followed it
C12_Witness ==
    /\ vad_state.running /\ AllRan
    /\ vad_state.is_speaking
    /\ ~vad_calls[Len(vad_calls)].speech

\* the log is k speech chunks spanning at least min_speech_duration,
\* followed by non-speech chunks only
SpeechThenSilence(k) ==
    /\ k \in 1..Len(vad_calls)
    /\ \A i \in 1..k : vad_calls[i].speech
    /\ \A i \in (k + 1)..Len(vad_calls) : ~vad_calls[i].speech
    /\ vad_calls[k].t - vad_calls[1].t >= MinSpeech

\* call m comes at least max_silence_duration after speech chunk k
SilentFor(k, m) == vad_calls[m].t - vad_calls[k].t >= MaxSilence

\* C13: on a running detector fed speech chunks spanning at least
\* min_speech_duration and then non-speech chunks, end_of_speech is
\* reported by the first non-speech chunk that comes at least
\* max_silence_duration after the last speech chunk, and by no other; when
\* speech resumes before that, no call has reported end_of_speech.
C13_EndOfSpeechOnce ==
    (vad_state.running /\ AllRan) =>
        LET n == Len(vad_calls)
        IN /\ \A k \in 1..n :
                SpeechThenSilence(k) =>
                    \A m \in 1..n :
                        vad_calls[m].ret.end_of_speech <=>
                            /\ m > k
                            /\ SilentFor(k, m)
                            /\ \A l \in (k + 1)..(m - 1) : ~SilentFor(k, l)
           /\ \A k \in 1..n :
                ( /\ k < n
                  /\ vad_calls[n].speech
                  /\ \A i \in 1..k : vad_calls[i].speech
                  /\ vad_calls[k].t - vad_calls[1].t >= MinSpeech
                  /\ \A i \in (k + 1)..(n - 1) :
                        ~vad_calls[i].speech /\ ~SilentFor(k, i) )
                => \A m \in 1..n : ~vad_calls[m].ret.end_of_speech

\* the end of speech was reported, and silence went on after it
C13_Witness ==
    /\ vad_state.running /\ AllRan
    /\ \E k \in 1..Len(vad_calls) :
          /\ SpeechThenSilence(k)
          /\ \E m \in (k + 1)..(Len(vad_calls) - 1) :
                vad_calls[m].ret.end_of_speech

Distance(a, b) == IF a >= b THEN a - b ELSE b - a

\* C14: the speech_duration returned with end_of_speech is the time from
\* the first speech chunk of the segment to its last speech chunk, to
\* within one frame.
C14_SpeechDuration ==
    (vad_state.running /\ AllRan) =>
        \A k \in 1..Len(vad_calls) :
            SpeechThenSilence(k) =>
                \A m \in 1..Len(vad_calls) :
                    vad_calls[m].ret.end_of_speech =>
                        Distance(vad_calls[m].ret.speech_duration,
                                 vad_calls[k].t - vad_calls[1].t) <= FrameTicks

\* C15: when no sub-frame of any chunk processed since construction or the
\* last reset was classified as speech, every one of those calls returned
\* is_speech, is_speaking and end_of_speech all false.
C15_SilenceStaysSilent ==
    (\A i \in 1..Len(vad_calls) : ~vad_calls[i].speech) =>
        /\ \A i \in 1..Len(vad_calls) :
              /\ ~vad_calls[i].ret.is_speech
              /\ ~vad_calls[i].ret.is_speaking
              /\ ~vad_calls[i].ret.end_of_speech
        /\ ~vad_state.is_speaking

\* a running detector has processed silence for longer than
\* max_silence_duration
C15_Witness ==
    /\ vad_state.running /\ AllRan
    /\ Len(vad_calls) >= 3
    /\ \A i \in 1..Len(vad_calls) : ~vad_calls[i].speech
    /\ vad_calls[Len(vad_calls)].t - vad_calls[1].t >= MaxSilence

\* C29: a failure of the classifier on a sub-frame is caught; process()
\* returns its dict all the same, and the chunk is speech exactly when some
\* sub-frame was classified as speech, before or after the failing one; a
\* chunk with no complete sub-frame is non-speech
C29_FrameFailureIsNonSpeech ==
    /\ \A i \in 1..Len(vad_calls) :
          vad_calls[i].ran =>
              /\ vad_calls[i].ret.has_duration
              /\ vad_calls[i].ret.is_speech = vad_calls[i].speech
    /\ \A v \in {vad_state, StartVad(vad_state)}, delta \in 1..MaxStep :
          /\ ~VadProcessAt(v, vad_time + delta, << >>).ret.is_speech
          /\ ~VadProcessAt(v, vad_time + delta, << "error" >>).ret.is_speech
          /\ v.running =>
                VadProcessAt(v, vad_time + delta,
                             << "error", "speech" >>).ret.is_speech

\* the classifier failed on a sub-frame of the last chunk and another
\* sub-frame was speech: the chunk came back as speech
C29_Witness ==
    /\ vad_calls # << >>
    /\ vad_calls[Len(vad_calls)].ran
    /\ vad_calls[Len(vad_calls)].failed
    /\ vad_calls[Len(vad_calls)].speech
    /\ vad_calls[Len(vad_calls)].ret.is_speech

\* C16 as stated: from any reachable state, reset() followed by
\* process(chunk) gives the result and the state that process(chunk) gives
\* on a freshly constructed detector; reset() twice is reset() once.
C16_ResetIsFresh ==
    /\ \A delta \in 1..MaxStep, frames \in Chunks :
          VadProcessAt(ResetVad(vad_state), vad_time + delta, frames)
              = VadProcessAt(VadNew, vad_time + delta, frames)
    /\ ResetVad(ResetVad(vad_state)) = ResetVad(vad_state)

\* a freshly constructed detector, started when the detector at hand runs
FreshLike(v) == IF v.running THEN StartVad(VadNew) ELSE VadNew

\* C16 as amended: from any reachable state, reset() followed by
\* process(chunk) gives the result and the state that process(chunk) gives
\* on a freshly constructed detector that has been started if the detector
\* is running; reset() twice is reset() once.
C16_ResetIsFreshStarted ==
    /\ \A delta \in 1..MaxStep, frames \in Chunks :
          VadProcessAt(ResetVad(vad_state), vad_time + delta, frames)
              = VadProcessAt(FreshLike(vad_state), vad_time + delta, frames)
    /\ ResetVad(ResetVad(vad_state)) = ResetVad(vad_state)

\* a running detector with every field reset() clears set
C16_Witness ==
    /\ vad_state.running
    /\ vad_state.is_speaking /\ vad_state.triggered
    /\ vad_state.speech_start_time # None
    /\ vad_state.last_speech_time # None
    /\ vad_state.ring_buffer >= 2

\* ======================================================================
\* VoiceActivityDetector.__init__ on its own: one constructor call with
\* any sample rate and frame duration, the other arguments at their
\* defaults.
\* ======================================================================

SampleRates == {0, 8000, 11025, 16000, 22050, 24000, 32000, 44100, 48000,
                96000, 16001}
FrameDurations == {0, 5, 10, 15, 20, 25, 30, 31, 40, 60}

ValidSampleRates == {8000, 16000, 32000, 48000}
ValidFrameDurations == {10, 20, 30}

\* padding_duration, in milliseconds
PaddingMs == 300

\* mutant: the frame duration is not validated
VadConstruct_NoFrameCheck(sample_rate, frame_duration_ms) ==
    IF sample_rate \notin ValidSampleRates
    THEN [outcome |-> "ValueError", message |-> "Sample rate must be",
          detector |-> {}]
    ELSE [outcome |-> "ok", message |-> "",
          detector |-> {[sample_rate |-> sample_rate,
                         frame_duration_ms |-> frame_duration_ms,
                         frame_size |-> (sample_rate * frame_duration_ms) \div 1000,
                         padding_frames |-> 0,
                         state |-> VadNew]}]

\* __init__: the two checks come before any attribute is set
VadConstruct(sample_rate, frame_duration_ms) ==
    IF sample_rate \notin ValidSampleRates
    THEN [outcome |-> "ValueError", message |-> "Sample rate must be",
          detector |-> {}]
    ELSE IF frame_duration_ms \notin ValidFrameDurations
    THEN [outcome |-> "ValueError", message |-> "Frame duration must be",
          detector |-> {}]
    ELSE [outcome |-> "ok", message |-> "",
          detector |-> {[sample_rate |-> sample_rate,
                         frame_duration_ms |-> frame_duration_ms,
                         frame_size |-> (sample_rate * frame_duration_ms) \div 1000,
                         padding_frames |-> PaddingMs \div frame_duration_ms,
                         state |-> VadNew]}]

VadConstructCall(sample_rate, frame_duration_ms) ==
    /\ constructor = << >>
    /\ constructor' = << [sample_rate |-> sample_rate,
                          frame_duration_ms |-> frame_duration_ms,
                          result |-> VadConstruct(sample_rate, frame_duration_ms)] >>
    /\ UNCHANGED << vars, capture_vars, vad_vars, wake_vars, parsed,
                    rest_vars >>

VadNewNext ==
    \E sample_rate \in SampleRates, frame_duration_ms \in FrameDurations :
        VadConstructCall(sample_rate, frame_duration_ms)

VadNewSpec == Init /\ [][VadNewNext]_all_vars

\* C17: construction fails with ValueError, and leaves no detector,
\* exactly when the sample rate is not one of 8000, 16000, 32000, 48000 or
\* the frame duration is not one of 10, 20, 30; otherwise it yields a
\* detector in its initial state with those parameters.
C17_ConstructionValidates ==
    \A i \in 1..Len(constructor) :
        LET c == constructor[i]
            bad == \/ c.sample_rate \notin {8000, 16000, 32000, 48000}
                   \/ c.frame_duration_ms \notin {10, 20, 30}
        IN /\ c.result.outcome = "ValueError" <=> bad
           /\ c.result.outcome = "ok" <=> ~bad
           /\ bad => c.result.detector = {}
           /\ ~bad => \E d \in c.result.detector :
                         /\ d.sample_rate = c.sample_rate
                         /\ d.frame_duration_ms = c.frame_duration_ms
                         /\ d.state = VadNew

\* a valid sample rate with an invalid frame duration was refused
C17_Witness ==
    /\ Len(constructor) = 1
    /\ constructor[1].sample_rate = 48000
    /\ constructor[1].frame_duration_ms = 25
    /\ constructor[1].result.outcome = "ValueError"

\* ======================================================================
\* WakeWordDetector on its own, with its clock: process(), reset(),
\* start() and stop() called in any order.  Time is counted in seconds;
\* time.time() is the wall clock, so each call may read any value.
\* ======================================================================

\* refractory_period, in seconds
RefractoryPeriod == 2

\* the clock reads RefractoryPeriod..MaxClock: time.time() is seconds since
\* 1970, far more than a refractory period
MaxClock == 8

\* threshold, in tenths
Threshold == 5

\* what one sub-model's entry of the prediction can be: an array of scores,
\* the last one the current, possibly empty
ScoreArrays == {<< >>, << 9, 2 >>, << 2, 5 >>}

\* model.predict(): it raises, or returns up to two sub-models' entries
Predictions ==
    { [fails |-> f, entries |-> e] :
         f \in BOOLEAN,
         e \in {<< >>} \cup { << a >> : a \in ScoreArrays }
                \cup { << a, b >> : a, b \in ScoreArrays } }

\* float(scores[-1]) if len(scores) > 0 else 0.0
Score(scores) == IF Len(scores) > 0 THEN scores[Len(scores)] ELSE 0

\* the sub-models whose score is at or over the threshold
Hits(prediction) ==
    { i \in 1..Len(prediction.entries) :
         Score(prediction.entries[i]) >= Threshold }

\* what WakeSpec leaves at rest
outside_wake ==
    << vars, capture_vars, vad_vars, constructor, parsed, rest_vars >>

\* mutant: a call exactly one refractory period later is still refused
InRefractory_Inclusive(now, last_detection_time) ==
    now <= last_detection_time + RefractoryPeriod

\* process(): current_time - self._last_detection_time < self.refractory_period
InRefractory(now, last_detection_time) ==
    now < last_detection_time + RefractoryPeriod

\* mutant: reset() forgets the last detection
WakeReset_ForgetsDetection(w) == [w EXCEPT !.last_detection_time = 0]

\* reset(): resets the model's buffers, and nothing of the detector
WakeReset(w) == w

\* process() at clock reading now, the model answering with prediction
\* when asked
WakeProcessCall(now, prediction) ==
    /\ LET refractory == InRefractory(now, wake.last_detection_time)
           r == WakeWordProcess(wake.running, wake.model, refractory,
                                prediction.fails, Hits(prediction) # {})
           first == IF r = "detection"
                    THEN CHOOSE i \in Hits(prediction) :
                            \A j \in Hits(prediction) : i <= j
                    ELSE 0
       IN /\ wake_ret' = r
          /\ wake_call' =
                << [now |-> now, running |-> wake.running,
                    model |-> wake.model,
                    last_before |-> wake.last_detection_time,
                    prediction |-> prediction,
                    predicted |-> wake.running /\ wake.model /\ ~refractory,
                    ret |-> r,
                    returned |-> IF r = "detection"
                                 THEN << [model |-> first,
                                          score |-> Score(
                                              prediction.entries[first]),
                                          timestamp |-> now] >>
                                 ELSE << >>] >>
          /\ IF r = "detection"
             THEN /\ wake' = [wake EXCEPT !.last_detection_time = now]
                  /\ detections' = Append(detections, now)
             ELSE UNCHANGED << wake, detections >>
    /\ UNCHANGED outside_wake

WakeResetCall ==
    /\ wake' = WakeReset(wake)
    /\ UNCHANGED << wake_ret, detections, wake_call >>
    /\ UNCHANGED outside_wake

\* start(): nothing when running; the model load may raise, and then
\* neither field is set
WakeStartCall(load_fails) ==
    /\ IF wake.running \/ load_fails
       THEN UNCHANGED wake
       ELSE wake' = [wake EXCEPT !.model = TRUE, !.running = TRUE]
    /\ UNCHANGED << wake_ret, detections, wake_call >>
    /\ UNCHANGED outside_wake

\* stop(): the model stays loaded
WakeStopCall ==
    /\ wake' = [wake EXCEPT !.running = FALSE]
    /\ UNCHANGED << wake_ret, detections, wake_call >>
    /\ UNCHANGED outside_wake

WakeNext ==
    \/ \E now \in RefractoryPeriod..MaxClock, prediction \in Predictions :
          WakeProcessCall(now, prediction)
    \/ WakeResetCall
    \/ \E load_fails \in BOOLEAN : WakeStartCall(load_fails)
    \/ WakeStopCall

WakeSpec == Init /\ [][WakeNext]_all_vars

\* C18: whatever process(), reset(), stop() and start() calls are made, any
\* two detections returned have timestamps at least refractory_period
\* apart, the later one later.
C18_RefractoryApart ==
    \A i, j \in 1..Len(detections) :
        i < j => detections[i] + RefractoryPeriod <= detections[j]

\* three detections were returned, and a later call on the running
\* detector returned None
C18_Witness ==
    /\ Len(detections) >= 3
    /\ wake.running
    /\ wake_ret = "none"

\* the time since the last detection, if there was one, is at least the
\* refractory period
RefractoryOver(c) ==
    c.last_before = 0 \/ c.now - c.last_before >= RefractoryPeriod

\* some sub-model's current score is at or over the threshold
SomeScoreOver(c) ==
    /\ ~c.prediction.fails
    /\ \E i \in 1..Len(c.prediction.entries) :
          LET a == c.prediction.entries[i]
          IN a # << >> /\ a[Len(a)] >= Threshold

\* C28: process returns a detection exactly when the detector is running,
\* the model is loaded, the refractory period is over and some sub-model's
\* score is at or over the threshold; inside the refractory period it
\* returns None without asking the model; it returns at most one detection,
\* with a score at or over the threshold, and records its timestamp as the
\* last detection time
C28_DetectionExactlyWhen ==
    /\ \A n \in 1..Len(wake_call) :
          LET c == wake_call[n]
          IN /\ c.ret = "detection"
                   <=> /\ c.running
                       /\ c.model
                       /\ RefractoryOver(c)
                       /\ SomeScoreOver(c)
             /\ ~RefractoryOver(c) => c.ret = "none" /\ ~c.predicted
             /\ Len(c.returned) = IF c.ret = "detection" THEN 1 ELSE 0
             /\ \A k \in 1..Len(c.returned) :
                   /\ c.returned[k].score >= Threshold
                   /\ c.returned[k].timestamp = c.now
                   /\ wake.last_detection_time = c.now
                   /\ detections[Len(detections)] = c.now
             /\ c.ret # "detection" =>
                   wake.last_detection_time = c.last_before
    /\ wake.last_detection_time =
          IF detections = << >> THEN 0 ELSE detections[Len(detections)]

\* a second detection was returned exactly one refractory period after the
\* first, for a prediction whose first sub-model is under the threshold
C28_Witness ==
    /\ Len(detections) = 2
    /\ wake_call # << >>
    /\ wake_call[1].ret = "detection"
    /\ wake_call[1].now = wake_call[1].last_before + RefractoryPeriod
    /\ wake_call[1].returned[1].model = 2

\* ======================================================================
\* CapturePipeline (src/src/kiro/efe/capture.py): the regular expressions
\* and how re searches them, character by character.
\* ======================================================================

\* a repetition with no upper limit
Unbounded == 1000

\* the characters of a text are its one-character substrings
Ch(text, i) == SubSeq(text, i, i)

UpperCase == "ABCDEFGHIJKLMNOPQRSTUVWXYZ"
LowerCase == "abcdefghijklmnopqrstuvwxyz"
Digits == "0123456789"

IsDigit(c) == \E i \in 1..10 : Ch(Digits, i) = c
IsSpace(c) == c = " "

\* str.lower() on one character
LowerCh(c) ==
    IF \E i \in 1..26 : Ch(UpperCase, i) = c
    THEN Ch(LowerCase, CHOOSE i \in 1..26 : Ch(UpperCase, i) = c)
    ELSE c

\* str.upper() on one character
UpperCh(c) ==
    IF \E i \in 1..26 : Ch(LowerCase, i) = c
    THEN Ch(UpperCase, CHOOSE i \in 1..26 : Ch(LowerCase, i) = c)
    ELSE c

RECURSIVE Lower(_)
\* str.lower()
Lower(text) ==
    IF text = "" THEN ""
    ELSE LowerCh(Ch(text, 1)) \o Lower(SubSeq(text, 2, Len(text)))

RECURSIVE Strip(_)
\* str.strip()
Strip(text) ==
    IF text = "" THEN ""
    ELSE IF IsSpace(Ch(text, 1)) THEN Strip(SubSeq(text, 2, Len(text)))
    ELSE IF IsSpace(Ch(text, Len(text)))
         THEN Strip(SubSeq(text, 1, Len(text) - 1))
    ELSE text

\* the nodes of a pattern
Lit(s) == [k |-> "lit", s |-> s]
Cat(xs) == [k |-> "cat", xs |-> xs]
Alt(xs) == [k |-> "alt", xs |-> xs]
Opt(x) == [k |-> "opt", x |-> x]
Grp(n, x) == [k |-> "grp", n |-> n, x |-> x]
Rep(class, min, max, greedy) ==
    [k |-> "rep", class |-> class, min |-> min, max |-> max,
     greedy |-> greedy]
End == [k |-> "end"]

AnyPlus == Rep("any", 1, Unbounded, TRUE)

\* a group that took no part in the match
Unset == << 0, 0 >>
NoGroups == << Unset, Unset, Unset >>

InClass(class, c) ==
    CASE class = "digit" -> IsDigit(c)
      [] class = "space" -> IsSpace(c)
      [] OTHER -> TRUE

RECURSIVE RunLength(_, _, _, _)
\* how many characters of the class follow position pos, up to max
RunLength(class, text, pos, max) ==
    IF max = 0 \/ pos > Len(text) \/ ~InClass(class, Ch(text, pos))
    THEN 0
    ELSE 1 + RunLength(class, text, pos + 1, max - 1)

RECURSIVE Match(_, _, _, _)
RECURSIVE MatchCat(_, _, _, _)
RECURSIVE MatchAlt(_, _, _, _, _)
RECURSIVE MatchEach(_, _, _, _)

\* the ways the node matches the (lower-cased) text from pos, as the
\* backtracking matcher tries them, each with the position reached and the
\* groups set; the first one is the match re reports
Match(node, text, pos, groups) ==
    CASE node.k = "lit" ->
            LET stop == pos + Len(node.s)
            IN IF stop - 1 <= Len(text) /\ SubSeq(text, pos, stop - 1) = node.s
               THEN << [pos |-> stop, groups |-> groups] >>
               ELSE << >>
      [] node.k = "cat" ->
            MatchCat(node.xs, 1, text, << [pos |-> pos, groups |-> groups] >>)
      [] node.k = "alt" -> MatchAlt(node.xs, 1, text, pos, groups)
      [] node.k = "opt" ->
            Match(node.x, text, pos, groups)
                \o << [pos |-> pos, groups |-> groups] >>
      [] node.k = "grp" ->
            LET inner == Match(node.x, text, pos, groups)
            IN [i \in 1..Len(inner) |->
                   [pos |-> inner[i].pos,
                    groups |-> [inner[i].groups EXCEPT
                                   ![node.n] = << pos, inner[i].pos >>]]]
      [] node.k = "rep" ->
            LET run == RunLength(node.class, text, pos, node.max)
            IN IF run < node.min THEN << >>
               ELSE [i \in 1..(run - node.min + 1) |->
                       [pos |-> pos + (IF node.greedy
                                       THEN run - i + 1
                                       ELSE node.min + i - 1),
                        groups |-> groups]]
      [] node.k = "end" ->
            IF pos = Len(text) + 1
            THEN << [pos |-> pos, groups |-> groups] >>
            ELSE << >>

\* the nodes xs[i..] in sequence, continued from each of the ways so far
MatchCat(xs, i, text, ways) ==
    IF i > Len(xs) THEN ways
    ELSE MatchCat(xs, i + 1, text, MatchEach(xs[i], text, ways, 1))

\* the node tried from each of the ways, in their order
MatchEach(node, text, ways, j) ==
    IF j > Len(ways) THEN << >>
    ELSE Match(node, text, ways[j].pos, ways[j].groups)
            \o MatchEach(node, text, ways, j + 1)

\* the alternatives xs[i..] in their order
MatchAlt(xs, i, text, pos, groups) ==
    IF i > Len(xs) THEN << >>
    ELSE Match(xs[i], text, pos, groups)
            \o MatchAlt(xs, i + 1, text, pos, groups)

NoMatch == [found |-> FALSE, start |-> 0, stop |-> 0, groups |-> NoGroups]

\* pattern.search(text) with re.IGNORECASE: the match at the leftmost
\* position where there is one
Search(pattern, text) ==
    LET lower == Lower(text)
        starts == { p \in 1..(Len(text) + 1) :
                       Match(pattern, lower, p, NoGroups) # << >> }
    IN IF starts = {} THEN NoMatch
       ELSE LET p == CHOOSE q \in starts : \A o \in starts : q <= o
                m == Head(Match(pattern, lower, p, NoGroups))
            IN [found |-> TRUE, start |-> p, stop |-> m.pos,
                groups |-> m.groups]

\* match.group(n), the empty string standing for None
Group(text, m, n) ==
    IF m.groups[n] = Unset THEN ""
    ELSE SubSeq(text, m.groups[n][1], m.groups[n][2] - 1)

IsSet(m, n) == m.groups[n] # Unset

\* ----------------------------------------------------------------------
\* The pattern lists, confidences in hundredths.
\* ----------------------------------------------------------------------

Spaces1 == Rep("space", 1, Unbounded, TRUE)
Spaces0 == Rep("space", 0, Unbounded, TRUE)

\* (?:list|tasks?|todo)
ListWord == Alt(<< Lit("list"), Cat(<< Lit("task"), Opt(Lit("s")) >>),
                   Lit("todo") >>)

\* (?:done|complete|finished)
DoneWord == Alt(<< Lit("done"), Lit("complete"), Lit("finished") >>)

\* what(?:'s| is)
WhatIs == Cat(<< Lit("what"), Alt(<< Lit("'s"), Lit(" is") >>) >>)

\* (?:need|have)
NeedHave == Alt(<< Lit("need"), Lit("have") >>)

TASK_PATTERNS ==
    << [re |-> Cat(<< Opt(Lit("i ")), Lit("need to "), Grp(1, AnyPlus) >>),
        confidence |-> 85],
       [re |-> Cat(<< Lit("add "), Grp(1, AnyPlus), Lit(" to "),
                      Opt(Lit("my ")), ListWord >>),
        confidence |-> 90],
       [re |-> Cat(<< Opt(Lit("i ")), Lit("have to "), Grp(1, AnyPlus) >>),
        confidence |-> 80],
       [re |-> Cat(<< Opt(Lit("i ")), Alt(<< Lit("gotta"), Lit("got to") >>),
                      Lit(" "), Grp(1, AnyPlus) >>),
        confidence |-> 80],
       [re |-> Cat(<< Opt(Lit("i ")), Lit("should "), Grp(1, AnyPlus) >>),
        confidence |-> 70],
       [re |-> Cat(<< Opt(Lit("please ")),
                      Alt(<< Lit("create"), Lit("make"), Lit("add") >>),
                      Lit(" "), Opt(Lit("a ")), Lit("task "),
                      Opt(Alt(<< Lit("to "), Lit("for ") >>)),
                      Grp(1, AnyPlus) >>),
        confidence |-> 95],
       [re |-> Cat(<< Lit("don"), Opt(Lit("'")), Lit("t "),
                      Opt(Lit("let me ")), Lit("forget "), Opt(Lit("to ")),
                      Grp(1, AnyPlus) >>),
        confidence |-> 85],
       [re |-> Cat(<< Lit("remember "),
                      Opt(Alt(<< Lit("to "), Lit("that i need to ") >>)),
                      Grp(1, AnyPlus) >>),
        confidence |-> 75] >>

REMINDER_PATTERNS ==
    << [re |-> Cat(<< Lit("remind me "), Opt(Lit("to ")),
                      Grp(1, Rep("any", 1, Unbounded, FALSE)),
                      Opt(Cat(<< Spaces1,
                                 Alt(<< Lit("at"), Lit("in"), Lit("on"),
                                        Lit("tomorrow"), Lit("tonight"),
                                        Lit("later") >>),
                                 Rep("any", 0, Unbounded, TRUE) >>)),
                      End >>),
        confidence |-> 95],
       [re |-> Cat(<< Lit("set a reminder "),
                      Opt(Alt(<< Lit("to "), Lit("for ") >>)),
                      Grp(1, AnyPlus) >>),
        confidence |-> 95],
       [re |-> Cat(<< Lit("alert me "),
                      Opt(Alt(<< Lit("to "), Lit("about ") >>)),
                      Grp(1, AnyPlus) >>),
        confidence |-> 90] >>

\* (\d{1,2})(?::(\d{2}))?\s*(am|pm)?
ClockTime ==
    Cat(<< Grp(1, Rep("digit", 1, 2, TRUE)),
           Opt(Cat(<< Lit(":"), Grp(2, Rep("digit", 2, 2, TRUE)) >>)),
           Spaces0,
           Opt(Grp(3, Alt(<< Lit("am"), Lit("pm") >>))) >>)

\* in (\d+) <unit>s?
InNumber(unit) ==
    Cat(<< Lit("in "), Grp(1, Rep("digit", 1, Unbounded, TRUE)),
           Lit(" "), Lit(unit), Opt(Lit("s")) >>)

\* <day>\s+(?:at\s+)?ClockTime
DayAtTime(day) ==
    Cat(<< Lit(day), Spaces1, Opt(Cat(<< Lit("at"), Spaces1 >>)),
           ClockTime >>)

TIME_PATTERNS ==
    << [re |-> InNumber("minute"), kind |-> "minutes"],
       [re |-> InNumber("hour"), kind |-> "hours"],
       [re |-> InNumber("day"), kind |-> "days"],
       [re |-> Cat(<< Lit("in a"), Opt(Lit("n")), Lit(" hour") >>),
        kind |-> "hour_single"],
       [re |-> Lit("in half an hour"), kind |-> "half_hour"],
       [re |-> DayAtTime("tomorrow"), kind |-> "tomorrow_time"],
       [re |-> Lit("tomorrow"), kind |-> "tomorrow"],
       [re |-> DayAtTime("today"), kind |-> "today_time"],
       [re |-> Cat(<< Lit("at "), ClockTime >>), kind |-> "absolute"],
       [re |-> Lit("at noon"), kind |-> "noon"],
       [re |-> Lit("at midnight"), kind |-> "midnight"],
       [re |-> Lit("tonight"), kind |-> "tonight"],
       [re |-> Lit("this evening"), kind |-> "evening"],
       [re |-> Lit("this afternoon"), kind |-> "afternoon"],
       [re |-> Lit("this morning"), kind |-> "morning"],
       [re |-> Lit("next week"), kind |-> "next_week"],
       [re |-> Lit("in a week"), kind |-> "week"],
       [re |-> Cat(<< Opt(Lit("on ")),
                      Grp(1, Alt(<< Lit("monday"), Lit("tuesday"),
                                    Lit("wednesday"), Lit("thursday"),
                                    Lit("friday"), Lit("saturday"),
                                    Lit("sunday") >>)) >>),
        kind |-> "weekday"] >>

QUERY_PATTERNS ==
    << [re |-> Cat(<< Lit("what"),
                      Alt(<< Cat(<< Opt(Lit("'")), Lit("s") >>),
                             Lit(" is") >>),
                      Lit(" on my "), ListWord >>),
        intent |-> "QUERY_TASKS", confidence |-> 95],
       [re |-> Cat(<< Alt(<< Lit("show"), Lit("list"), Lit("read") >>),
                      Opt(Lit(" me")), Opt(Lit(" my")), Lit(" "),
                      Alt(<< Lit("list"),
                             Cat(<< Lit("task"), Opt(Lit("s")) >>),
                             Cat(<< Lit("todo"), Opt(Lit("s")) >>) >>) >>),
        intent |-> "QUERY_TASKS", confidence |-> 90],
       [re |-> Cat(<< Lit("what do i "), NeedHave, Lit(" to do") >>),
        intent |-> "QUERY_TASKS", confidence |-> 85],
       [re |-> Cat(<< WhatIs, Lit(" "),
                      Alt(<< Lit("up"), Lit("happening") >>),
                      Lit(" today") >>),
        intent |-> "QUERY_TODAY", confidence |-> 85],
       [re |-> Cat(<< Lit("what do i "), NeedHave, Lit(" to do today") >>),
        intent |-> "QUERY_TODAY", confidence |-> 95],
       [re |-> Cat(<< WhatIs, Lit(" "), Opt(Lit("on ")), Opt(Lit("my ")),
                      Alt(<< Lit("schedule"), Lit("agenda") >>),
                      Opt(Cat(<< Lit(" "), Opt(Lit("for ")),
                                 Lit("today") >>)) >>),
        intent |-> "QUERY_TODAY", confidence |-> 90],
       [re |-> Cat(<< Opt(Cat(<< WhatIs, Lit(" the ") >>)), Lit("status "),
                      Alt(<< Lit("of"), Lit("on") >>), Lit(" "),
                      Grp(1, AnyPlus) >>),
        intent |-> "QUERY_PROJECT", confidence |-> 90],
       [re |-> Cat(<< Lit("how"), Alt(<< Lit("'s"), Lit(" is") >>), Lit(" "),
                      Grp(1, AnyPlus), Lit(" "),
                      Alt(<< Lit("going"), Lit("coming along"),
                             Lit("progressing") >>) >>),
        intent |-> "QUERY_PROJECT", confidence |-> 85] >>

COMPLETE_PATTERNS ==
    << [re |-> Cat(<< Opt(Lit("i ")),
                      Alt(<< Lit("finished"), Lit("completed"),
                             Lit("done with"), Lit("did") >>),
                      Lit(" "), Grp(1, AnyPlus) >>),
        confidence |-> 85],
       [re |-> Cat(<< Lit("mark "), Grp(1, AnyPlus), Lit(" "),
                      Opt(Lit("as ")), DoneWord >>),
        confidence |-> 95],
       [re |-> Cat(<< Lit("check off "), Grp(1, AnyPlus) >>),
        confidence |-> 90],
       [re |-> Cat(<< Grp(1, AnyPlus), Lit(" is "), DoneWord >>),
        confidence |-> 80] >>

\* ----------------------------------------------------------------------
\* datetime and timedelta.  A datetime is its proleptic day number, hour and
\* minute; seconds and microseconds are carried along unchanged by + and
\* set to zero by replace, and nothing below reads them.
\* ----------------------------------------------------------------------

\* datetime.max is day 3652059 (9999-12-31); a timedelta holds at most
\* 999999999 days
MaxOrdinal == 3652059
MaxDeltaDays == 999999999

NoTime == [day |-> 0, hour |-> 0, minute |-> 0]

Value(t) == [outcome |-> "value", time |-> t]
Throws(exception) == [outcome |-> exception, time |-> NoTime]
ReturnsNone == [outcome |-> "none", time |-> NoTime]
FallsThrough == [outcome |-> "fallthrough", time |-> NoTime]

\* datetime.weekday(): Monday is 0, and day 1 was a Monday
Weekday(t) == (t.day + 6) % 7

\* a <= b on datetimes whose left side has zero seconds
NotAfter(a, b) ==
    \/ a.day < b.day
    \/ a.day = b.day /\ a.hour < b.hour
    \/ a.day = b.day /\ a.hour = b.hour /\ a.minute <= b.minute

\* t + timedelta(days = days, minutes = minutes), minutes below a day's
Plus(t, days, minutes) ==
    IF days > MaxDeltaDays THEN Throws("OverflowError")
    ELSE LET m == t.hour * 60 + t.minute + minutes
             day == t.day + days + (m \div 1440)
         IN IF day > MaxOrdinal THEN Throws("OverflowError")
            ELSE Value([day |-> day, hour |-> (m % 1440) \div 60,
                        minute |-> m % 60])

\* t.replace(hour = hour, minute = minute, second = 0, microsecond = 0)
Replace(t, hour, minute) ==
    IF hour \in 0..23 /\ minute \in 0..59
    THEN Value([day |-> t.day, hour |-> hour, minute |-> minute])
    ELSE Throws("ValueError")

\* r.replace(...) where r is the outcome of an earlier expression
ThenReplace(r, hour, minute) ==
    IF r.outcome = "value" THEN Replace(r.time, hour, minute) ELSE r

RECURSIVE ToInt(_)
\* int() of a string of digits
ToInt(digits) ==
    IF digits = "" THEN 0
    ELSE ToInt(SubSeq(digits, 1, Len(digits) - 1)) * 10
            + (CHOOSE i \in 1..10 :
                  Ch(Digits, i) = Ch(digits, Len(digits))) - 1

\* ----------------------------------------------------------------------
\* _parse_hhmm, _next_weekday, _parse_time
\* ----------------------------------------------------------------------

RECURSIVE HhmmGroups(_, _, _, _)
\* the loop over match.groups(): the first number is the hour, the second
\* the minute, "am"/"pm" the meridiem
HhmmGroups(text, m, i, acc) ==
    IF i > 3 THEN acc
    ELSE LET g == Lower(Group(text, m, i))
         IN HhmmGroups(text, m, i + 1,
               IF ~IsSet(m, i) THEN acc
               ELSE IF g \in {"am", "pm"} THEN [acc EXCEPT !.ampm = g]
               ELSE IF ~acc.has_hour
                    THEN [acc EXCEPT !.has_hour = TRUE, !.hour = ToInt(g)]
               ELSE IF ~acc.has_minute
                    THEN [acc EXCEPT !.has_minute = TRUE,
                                     !.minute = ToInt(g)]
               ELSE acc)

\* mutant: pm adds twelve hours to noon as well
Meridiem_NoonPlusTwelve(hour, ampm) ==
    IF ampm = "pm" /\ hour <= 12 THEN hour + 12
    ELSE IF ampm = "am" /\ hour = 12 THEN 0
    ELSE IF ampm = "" /\ hour < 8 THEN hour + 12
    ELSE hour

\* the hour after the meridiem rule
Meridiem(hour, ampm) ==
    IF ampm = "pm" /\ hour < 12 THEN hour + 12
    ELSE IF ampm = "am" /\ hour = 12 THEN 0
    ELSE IF ampm = "" /\ hour < 8 THEN hour + 12
    ELSE hour

\* _parse_hhmm(match); has_minute is FALSE where the code has minute None
ParseHhmm(text, m) ==
    LET acc == HhmmGroups(text, m, 1,
                  [has_hour |-> FALSE, hour |-> 0, has_minute |-> FALSE,
                   minute |-> 0, ampm |-> ""])
    IN IF ~acc.has_hour
       THEN [has_hour |-> FALSE, hour |-> 0, has_minute |-> FALSE,
             minute |-> 0]
       ELSE [has_hour |-> TRUE, hour |-> Meridiem(acc.hour, acc.ampm),
             has_minute |-> acc.has_minute, minute |-> acc.minute]

DayNames ==
    << "monday", "tuesday", "wednesday", "thursday", "friday", "saturday",
       "sunday" >>

\* mutant: the named day may be today
DaysAhead_TodayCounts(target, current) ==
    IF target < current THEN target + 7 - current ELSE target - current

\* days_ahead in _next_weekday: target - current, a week more when that is
\* not positive
DaysAhead(target, current) ==
    IF target <= current THEN target + 7 - current ELSE target - current

\* _next_weekday(day_name)
NextWeekday(day_name, now) ==
    LET target == IF \E i \in 1..7 : DayNames[i] = day_name
                  THEN (CHOOSE i \in 1..7 : DayNames[i] = day_name) - 1
                  ELSE 0
        current == Weekday(now)
    IN ThenReplace(Plus(now, DaysAhead(target, current), 0), 9, 0)

\* mutant: only a time earlier than now is moved to tomorrow
RollIfPast_NotNow(result, now) ==
    IF result.outcome = "value" /\ NotAfter(result.time, now)
          /\ [result.time EXCEPT !.day = 0] # [now EXCEPT !.day = 0]
    THEN Plus(result.time, 1, 0)
    ELSE result

\* if result <= now: result += timedelta(days=1)
RollIfPast(result, now) ==
    IF result.outcome = "value" /\ NotAfter(result.time, now)
    THEN Plus(result.time, 1, 0)
    ELSE result

\* the body of the try for one matching pattern
Resolve(kind, text, m, now) ==
    LET n == ToInt(Group(text, m, 1))
        tomorrow == Plus(now, 1, 0)
        hm == ParseHhmm(text, m)
    IN CASE kind = "minutes" -> Plus(now, n \div 1440, n % 1440)
         [] kind = "hours" -> Plus(now, n \div 24, (n % 24) * 60)
         [] kind = "days" -> Plus(now, n, 0)
         [] kind = "hour_single" -> Plus(now, 0, 60)
         [] kind = "half_hour" -> Plus(now, 0, 30)
         [] kind = "noon" -> Replace(now, 12, 0)
         [] kind = "midnight" -> ThenReplace(tomorrow, 0, 0)
         [] kind = "tonight" -> Replace(now, 20, 0)
         [] kind = "evening" -> Replace(now, 18, 0)
         [] kind = "afternoon" -> Replace(now, 14, 0)
         [] kind = "morning" ->
               IF now.hour >= 12 THEN ThenReplace(tomorrow, 9, 0)
               ELSE Replace(now, 9, 0)
         [] kind = "tomorrow_time" ->
               IF hm.has_hour THEN ThenReplace(tomorrow, hm.hour, hm.minute)
               ELSE ThenReplace(tomorrow, 9, 0)
         [] kind = "tomorrow" -> ThenReplace(tomorrow, 9, 0)
         [] kind = "today_time" ->
               IF hm.has_hour THEN Replace(now, hm.hour, hm.minute)
               ELSE ReturnsNone
         [] kind \in {"next_week", "week"} -> Plus(now, 7, 0)
         [] kind = "weekday" -> NextWeekday(Lower(Group(text, m, 1)), now)
         [] kind = "absolute" ->
               IF hm.has_hour
               THEN RollIfPast(Replace(now, hm.hour, hm.minute), now)
               ELSE FallsThrough

\* the exceptions the except clause of _parse_time names
CaughtInParseTime == {"ValueError", "AttributeError"}

RECURSIVE ParseTimeFrom(_, _, _)
\* the loop of _parse_time from pattern i on
ParseTimeFrom(i, text, now) ==
    IF i > Len(TIME_PATTERNS) THEN ReturnsNone
    ELSE LET m == Search(TIME_PATTERNS[i].re, text)
         IN IF ~m.found THEN ParseTimeFrom(i + 1, text, now)
            ELSE LET r == Resolve(TIME_PATTERNS[i].kind, text, m, now)
                 IN IF r.outcome \in CaughtInParseTime \cup {"fallthrough"}
                    THEN ParseTimeFrom(i + 1, text, now)
                    ELSE r

RECURSIVE ParseTimeBack(_, _, _)
\* the loop taking the patterns from the last to the first
ParseTimeBack(i, text, now) ==
    IF i < 1 THEN ReturnsNone
    ELSE LET m == Search(TIME_PATTERNS[i].re, text)
         IN IF ~m.found THEN ParseTimeBack(i - 1, text, now)
            ELSE LET r == Resolve(TIME_PATTERNS[i].kind, text, m, now)
                 IN IF r.outcome \in CaughtInParseTime \cup {"fallthrough"}
                    THEN ParseTimeBack(i - 1, text, now)
                    ELSE r

\* mutant: the generic patterns are tried before the compound ones
ParseTime_GenericFirst(text, now) ==
    ParseTimeBack(Len(TIME_PATTERNS), text, now)

\* _parse_time(text) when datetime.now() reads now
ParseTime(text, now) == ParseTimeFrom(1, text, now)

\* ----------------------------------------------------------------------
\* _extract_time_phrase, _clean_task_title
\* ----------------------------------------------------------------------

RECURSIVE Words(_)
\* str.split()
Words(text) ==
    LET t == Strip(text)
        stops == { i \in 1..Len(t) : IsSpace(Ch(t, i)) }
    IN IF t = "" THEN << >>
       ELSE IF stops = {} THEN << t >>
       ELSE LET stop == CHOOSE i \in stops : \A j \in stops : i <= j
            IN << SubSeq(t, 1, stop - 1) >>
                  \o Words(SubSeq(t, stop + 1, Len(t)))

RECURSIVE Join(_)
\* " ".join(words)
Join(words) ==
    IF words = << >> THEN ""
    ELSE IF Len(words) = 1 THEN words[1]
    ELSE words[1] \o " " \o Join(Tail(words))

PhraseWords ==
    {"at", "in", "on", "tomorrow", "tonight", "today", "morning",
     "afternoon", "evening", "noon", "midnight", "monday", "tuesday",
     "wednesday", "thursday", "friday", "saturday", "sunday", "next week"}

\* _extract_time_phrase(text), the empty string standing for None
ExtractTimePhrase(text) ==
    LET words == Words(Lower(text))
        hits == { i \in 1..Len(words) : words[i] \in PhraseWords }
    IN IF hits = {} THEN ""
       ELSE Join(SubSeq(words, CHOOSE i \in hits : \A j \in hits : i <= j,
                        Len(words)))

EndsWith(text, suffix) ==
    /\ Len(suffix) <= Len(text)
    /\ SubSeq(text, Len(text) - Len(suffix) + 1, Len(text)) = suffix

TitleTimeWords ==
    << "at", "by", "before", "tomorrow", "today", "tonight", "this morning",
       "this afternoon", "this evening" >>

RECURSIVE RStripPunctuation(_)
\* str.rstrip(".,!?")
RStripPunctuation(text) ==
    IF text # "" /\ Ch(text, Len(text)) \in {".", ",", "!", "?"}
    THEN RStripPunctuation(SubSeq(text, 1, Len(text) - 1))
    ELSE text

\* _clean_task_title(title)
CleanTaskTitle(title) ==
    LET lower == Lower(title)
        hits == { i \in 1..Len(TitleTimeWords) :
                     EndsWith(lower, TitleTimeWords[i]) }
        cut == IF hits = {} THEN title
               ELSE LET w == TitleTimeWords[
                               CHOOSE i \in hits : \A j \in hits : i <= j]
                    IN Strip(SubSeq(title, 1, Len(title) - Len(w)))
        bare == RStripPunctuation(cut)
    IN IF bare = "" THEN ""
       ELSE UpperCh(Ch(bare, 1)) \o SubSeq(bare, 2, Len(bare))

\* ----------------------------------------------------------------------
\* parse
\* ----------------------------------------------------------------------

\* a ParsedCapture; the empty string stands for None in the text fields
ParsedCapture(intent, confidence) ==
    [outcome |-> "returned", intent |-> intent, confidence |-> confidence,
     task_title |-> "", reminder_message |-> "", has_trigger |-> FALSE,
     trigger_time |-> NoTime, project_name |-> "", task_reference |-> "",
     raw_time |-> ""]

\* parse left by an exception
ParseRaised(exception) ==
    [ParsedCapture("none", 0) EXCEPT !.outcome = exception]

RECURSIVE FirstMatch(_, _, _)
\* the index of the first pattern of the list from i on that the text
\* matches, 0 when none does
FirstMatch(patterns, i, text) ==
    IF i > Len(patterns) THEN 0
    ELSE IF Search(patterns[i].re, text).found THEN i
    ELSE FirstMatch(patterns, i + 1, text)

QueryResult(text, i) ==
    LET p == QUERY_PATTERNS[i]
        m == Search(p.re, text)
    IN IF p.intent = "QUERY_PROJECT"
       THEN [ParsedCapture(p.intent, p.confidence) EXCEPT
                !.project_name = Strip(Group(text, m, 1))]
       ELSE ParsedCapture(p.intent, p.confidence)

CompleteResult(text, i) ==
    LET p == COMPLETE_PATTERNS[i]
        m == Search(p.re, text)
    IN [ParsedCapture("COMPLETE_TASK", p.confidence) EXCEPT
           !.task_reference = Strip(Group(text, m, 1))]

ReminderResult(text, i, now) ==
    LET p == REMINDER_PATTERNS[i]
        m == Search(p.re, text)
        t == ParseTime(text, now)
    IN IF t.outcome \notin {"value", "none"} THEN ParseRaised(t.outcome)
       ELSE [ParsedCapture("REMINDER", p.confidence) EXCEPT
                !.reminder_message = Strip(Group(text, m, 1)),
                !.has_trigger = (t.outcome = "value"),
                !.trigger_time = t.time,
                !.raw_time = ExtractTimePhrase(text)]

TaskResult(text, i) ==
    LET p == TASK_PATTERNS[i]
        m == Search(p.re, text)
    IN [ParsedCapture("TASK", p.confidence) EXCEPT
           !.task_title = CleanTaskTitle(Strip(Group(text, m, 1)))]

\* the reminder loop and what follows it
ParseFromReminders(text, now) ==
    LET r == FirstMatch(REMINDER_PATTERNS, 1, text)
        t == FirstMatch(TASK_PATTERNS, 1, text)
    IN IF r # 0 THEN ReminderResult(text, r, now)
       ELSE IF t # 0 THEN TaskResult(text, t)
       ELSE ParsedCapture("UNKNOWN", 0)

\* parse(text) when datetime.now() reads now
Parse(raw, now) ==
    LET text == Strip(raw)
        q == FirstMatch(QUERY_PATTERNS, 1, text)
        c == FirstMatch(COMPLETE_PATTERNS, 1, text)
    IN IF q # 0 THEN QueryResult(text, q)
       ELSE IF c # 0 THEN CompleteResult(text, c)
       ELSE ParseFromReminders(text, now)

\* ----------------------------------------------------------------------
\* parse applied to one utterance at one reading of the clock.
\* ----------------------------------------------------------------------

outside_parse ==
    << vars, capture_vars, vad_vars, constructor, wake_vars, rest_vars >>

Openers ==
    {"", "I need to ", "remind me to ", "Remind me ", "set a reminder for ",
     "add ", "mark ", "i finished ", "remember to ",
     "remind me that I need to ", "status of "}

Topics == {"call mom", "combat"}

Closers ==
    {"", " today", " tomorrow at 3pm", " at 25", " at 7:30",
     " in 999999999 days", " in 999999999 minutes", " is done",
     " to my list", " on Friday", " at 25 on friday", " by tonight!"}

Questions ==
    {"what do I need to do today", "what do i need to do", "what's up today",
     "show me my tasks", "what is on my schedule for today"}

\* reminders with the time phrase in the middle or doubled
Reminders ==
    {"remind me tomorrow at 3pm to call mom",
     "remind me today at 5:15 pm to call mom",
     "Remind me to combat Tomorrow 11:45",
     "remind me to call mom tomorrow at 25"}

Utterances ==
    { o \o t \o c : o \in Openers, t \in Topics, c \in Closers }
        \cup Questions \cup Reminders

\* Tuesday 2026-11-03 08:30, Friday 2026-11-06 15:00, Sunday 2026-11-08 23:59
Clocks ==
    {[day |-> 739923, hour |-> 8, minute |-> 30],
     [day |-> 739926, hour |-> 15, minute |-> 0],
     [day |-> 739928, hour |-> 23, minute |-> 59]}

\* parse(text), called once, datetime.now() reading now
ParseCall(text, now) ==
    /\ parsed = << >>
    /\ parsed' = << [text |-> text, now |-> now,
                     result |-> Parse(text, now)] >>
    /\ UNCHANGED outside_parse

ParseNext == \E text \in Utterances, now \in Clocks : ParseCall(text, now)

ParseSpec == Init /\ [][ParseNext]_all_vars

\* the four lists in the order the claim gives, each pattern with its
\* intent
ScanOrder ==
    [i \in 1..Len(QUERY_PATTERNS) |->
        [re |-> QUERY_PATTERNS[i].re, intent |-> QUERY_PATTERNS[i].intent,
         confidence |-> QUERY_PATTERNS[i].confidence]]
    \o [i \in 1..Len(COMPLETE_PATTERNS) |->
        [re |-> COMPLETE_PATTERNS[i].re, intent |-> "COMPLETE_TASK",
         confidence |-> COMPLETE_PATTERNS[i].confidence]]
    \o [i \in 1..Len(REMINDER_PATTERNS) |->
        [re |-> REMINDER_PATTERNS[i].re, intent |-> "REMINDER",
         confidence |-> REMINDER_PATTERNS[i].confidence]]
    \o [i \in 1..Len(TASK_PATTERNS) |->
        [re |-> TASK_PATTERNS[i].re, intent |-> "TASK",
         confidence |-> TASK_PATTERNS[i].confidence]]

\* the places in ScanOrder of the patterns the text matches
Matching(text) ==
    { i \in 1..Len(ScanOrder) : Search(ScanOrder[i].re, Strip(text)).found }

\* the call's result carries the intent and confidence of the first pattern
\* in ScanOrder that matches, UNKNOWN and 0 when none does
FirstMatchWins(c) ==
    LET hits == Matching(c.text)
    IN IF hits = {}
       THEN c.result.intent = "UNKNOWN" /\ c.result.confidence = 0
       ELSE LET first == CHOOSE i \in hits : \A j \in hits : i <= j
            IN /\ c.result.intent = ScanOrder[first].intent
               /\ c.result.confidence = ScanOrder[first].confidence

\* lemma: every call that returns gives the first match in the claimed
\* order, and UNKNOWN exactly when nothing matches
ParseOrderWhenReturned ==
    \A i \in 1..Len(parsed) :
        parsed[i].result.outcome = "returned" =>
            /\ FirstMatchWins(parsed[i])
            /\ parsed[i].result.intent = "UNKNOWN"
                   <=> Matching(parsed[i].text) = {}

\* C19: parse returns the intent and confidence of the first pattern that
\* matches in the order QUERY, COMPLETION, REMINDER, TASK, and UNKNOWN with
\* confidence 0 exactly when no pattern matches; "remind me to call mom" is
\* REMINDER and "what do I need to do today" is QUERY_TASKS
C19_FirstMatchWins ==
    \A i \in 1..Len(parsed) :
        LET c == parsed[i]
        IN /\ c.result.outcome = "returned"
           /\ FirstMatchWins(c)
           /\ c.result.intent = "UNKNOWN" <=> Matching(c.text) = {}
           /\ c.text = "remind me to call mom" =>
                 c.result.intent = "REMINDER"
           /\ c.text = "what do I need to do today" =>
                 c.result.intent = "QUERY_TASKS"

\* lemma: an hour out of range is caught and the later time patterns are
\* tried: "at 25" alone leaves trigger_time None, and with "on friday"
\* after it the weekday pattern resolves
ValueErrorIsCaught ==
    \A i \in 1..Len(parsed) :
        LET c == parsed[i]
        IN /\ c.text = "remind me to call mom at 25" =>
                 /\ c.result.outcome = "returned"
                 /\ ~c.result.has_trigger
           /\ c.text = "remind me to call mom at 25 on friday" =>
                 /\ c.result.outcome = "returned"
                 /\ c.result.has_trigger
                 /\ Weekday(c.result.trigger_time) = 4
                 /\ c.result.trigger_time.hour = 9

\* C20: parse never throws: a time sub-expression that cannot be resolved
\* (an hour out of range, an offset too large for a date) is caught and the
\* call still returns a ParsedCapture
C20_ParseNeverRaises ==
    \A i \in 1..Len(parsed) : parsed[i].result.outcome = "returned"

\* ----------------------------------------------------------------------
\* The order of TIME_PATTERNS
\* ----------------------------------------------------------------------

\* the places in TIME_PATTERNS of the patterns the call's text matches
TimeHits(c) ==
    { i \in 1..Len(TIME_PATTERNS) :
         Search(TIME_PATTERNS[i].re, Strip(c.text)).found }

\* what pattern i makes of the call's text
ResolvedBy(i, c) ==
    Resolve(TIME_PATTERNS[i].kind, Strip(c.text),
            Search(TIME_PATTERNS[i].re, Strip(c.text)), c.now)

\* the matching patterns whose time can be built
TimeBuilt(c) ==
    { i \in TimeHits(c) :
         ResolvedBy(i, c).outcome \notin {"ValueError", "fallthrough"} }

Earliest(S) == CHOOSE i \in S : \A j \in S : i <= j

\* the calls that returned a reminder
IsReminder(c) ==
    c.result.outcome = "returned" /\ c.result.intent = "REMINDER"

\* the text has "tomorrow [at] H[:MM][am|pm]" with a valid hour and minute,
\* and no pattern listed before that one matches
TomorrowAtValid(c) ==
    /\ TimeHits(c) # {}
    /\ TIME_PATTERNS[Earliest(TimeHits(c))].kind = "tomorrow_time"
    /\ ResolvedBy(Earliest(TimeHits(c)), c).outcome = "value"

\* tomorrow's date with the parsed hour and minute
TomorrowAtParsed(c) ==
    LET i == Earliest(TimeHits(c))
        hm == ParseHhmm(Strip(c.text),
                        Search(TIME_PATTERNS[i].re, Strip(c.text)))
    IN /\ c.result.has_trigger
       /\ c.result.trigger_time.day = c.now.day + 1
       /\ c.result.trigger_time.hour = hm.hour
       /\ c.result.trigger_time.minute = hm.minute

TomorrowExamples(c) ==
    /\ c.text = "remind me tomorrow at 3pm to call mom" =>
          /\ c.result.has_trigger
          /\ c.result.trigger_time =
                [day |-> c.now.day + 1, hour |-> 15, minute |-> 0]
    /\ c.text = "Remind me to combat Tomorrow 11:45" =>
          /\ c.result.has_trigger
          /\ c.result.trigger_time =
                [day |-> c.now.day + 1, hour |-> 11, minute |-> 45]

outside_hhmm ==
    << vars, capture_vars, vad_vars, constructor, wake_vars, parsed,
       efe_vars, bus_vars,
       timed,
       cleaned,
       voice_vars,
       sched_vars >>

\* the largest hour spoken
MaxHour == 23

Hours == 0..MaxHour
Minutes == {0, 5, 30, 59}
Meridiems == {"", "am", "pm", "AM", " pm"}

\* str(n) for n below 100, and n as two digits
ToStr(n) ==
    IF n < 10 THEN Ch(Digits, n + 1)
    ELSE Ch(Digits, (n \div 10) + 1) \o Ch(Digits, (n % 10) + 1)

TwoDigits(n) == Ch(Digits, (n \div 10) + 1) \o Ch(Digits, (n % 10) + 1)

\* the phrase as spoken
ClockPhrase(h, has_minute, minute, ampm) ==
    "at " \o ToStr(h) \o (IF has_minute THEN ":" \o TwoDigits(minute) ELSE "")
        \o ampm

\* the "absolute" pattern, at (\d{1,2})(?::(\d{2}))?\s*(am|pm)?
AbsolutePattern ==
    TIME_PATTERNS[CHOOSE i \in 1..Len(TIME_PATTERNS) :
                     TIME_PATTERNS[i].kind = "absolute"].re

\* _parse_hhmm(match) for the match of the absolute pattern in the phrase
HhmmCall(h, has_minute, minute, ampm) ==
    /\ hhmm = << >>
    /\ LET text == ClockPhrase(h, has_minute, minute, ampm)
       IN hhmm' = << [h |-> h, has_minute |-> has_minute,
                      minute |-> IF has_minute THEN minute ELSE 0,
                      ampm |-> Lower(Strip(ampm)), text |-> text,
                      result |-> ParseHhmm(text,
                                           Search(AbsolutePattern, text))] >>
    /\ UNCHANGED outside_hhmm

HhmmNext ==
    \E h \in Hours, has_minute \in BOOLEAN, minute \in Minutes,
       ampm \in Meridiems :
        HhmmCall(h, has_minute, minute, ampm)

HhmmSpec == Init /\ [][HhmmNext]_all_vars

\* the hour the claim gives for hour h and the meridiem
ClaimedHour(h, ampm) ==
    CASE ampm = "pm" /\ h < 12 -> h + 12
      [] ampm = "am" /\ h = 12 -> 0
      [] ampm = "" /\ h < 8 -> h + 12
      [] OTHER -> h

\* C30: _parse_hhmm gives h + 12 for pm with h < 12, 0 for 12 am, h + 12
\* without a meridiem for h < 8 and h otherwise; for h in 1..12 with a
\* meridiem and h in 0..23 without one the hour lies in 0..23; the minute
\* comes back unchanged
C30_HourAndMinute ==
    \A n \in 1..Len(hhmm) :
        LET c == hhmm[n]
        IN /\ c.result.has_hour
           /\ c.result.hour = ClaimedHour(c.h, c.ampm)
           /\ (\/ c.ampm # "" /\ c.h \in 1..12
               \/ c.ampm = "" /\ c.h \in 0..23) => c.result.hour \in 0..23
           /\ c.result.has_minute = c.has_minute
           /\ c.result.minute = c.minute

\* "at 12:30 pm" came back as 12:30
C30_Witness ==
    /\ hhmm # << >>
    /\ hhmm[1].text = "at 12:30 pm"
    /\ hhmm[1].result.hour = 12
    /\ hhmm[1].result.minute = 30

\* ---------------------------------------------------------------------
\* ExecutiveFunctionEngine._handle_completion (EfeSpec)
\* ---------------------------------------------------------------------

outside_efe ==
    << vars, capture_vars, vad_vars, constructor, wake_vars, parsed, hhmm,
       bus_vars,
       timed,
       cleaned,
       voice_vars,
       sched_vars >>

\* the most rows the task table gets
MaxTasks == 3

\* titles given to create_task, and references given to _handle_completion
\* (the empty one is what parse makes of "mark   done")
Titles == {"buy groceries", "Call the dentist", "call mom", "Buy milk"}
References ==
    {"", "buying groceries", "the", "called my mom", "call", "milk",
     "walk the dog", "my groceries", "call mom today"}

\* \w
IsWordCh(c) ==
    \/ \E i \in 1..26 : Ch(LowerCase, i) = c \/ Ch(UpperCase, i) = c
    \/ IsDigit(c)
    \/ c = "_"

RECURSIVE WordRun(_, _)
\* the length of the run of word characters that starts at position i
WordRun(text, i) ==
    IF i > Len(text) \/ ~IsWordCh(Ch(text, i)) THEN 0
    ELSE 1 + WordRun(text, i + 1)

RECURSIVE Sub(_, _, _)
\* re.sub(r'\b(w1|w2|...)\b', repl, text)
Sub(alternatives, repl, text) ==
    IF text = "" THEN ""
    ELSE LET n == WordRun(text, 1)
         IN IF n = 0
            THEN Ch(text, 1) \o Sub(alternatives, repl, SubSeq(text, 2, Len(text)))
            ELSE (IF SubSeq(text, 1, n) \in alternatives THEN repl
                  ELSE SubSeq(text, 1, n))
                    \o Sub(alternatives, repl, SubSeq(text, n + 1, Len(text)))

\* _normalize_task_reference(text)
NormalizeTaskReference(text) ==
    LET t0 == Strip(Lower(text))
        t1 == Sub({"buying", "bought"}, "buy", t0)
        t2 == Sub({"calling", "called"}, "call", t1)
        t3 == Sub({"getting", "got"}, "get", t2)
        t4 == Sub({"making", "made"}, "make", t3)
        t5 == Sub({"doing", "did", "done"}, "do", t4)
        t6 == Sub({"the", "a", "an", "my", "some"}, "", t5)
    IN Join(Words(t6))

\* needle in hay
Contains(hay, needle) ==
    \/ needle = ""
    \/ \E i \in 1..(Len(hay) - Len(needle) + 1) :
          SubSeq(hay, i, i + Len(needle) - 1) = needle

\* set(text.split())
WordSet(text) == LET w == Words(text) IN { w[i] : i \in 1..Len(w) }

\* the test of the partial match, engine.py line 212
PartialMatch(reference_normalized, title) ==
    \/ WordSet(reference_normalized)
          \cap WordSet(NormalizeTaskReference(title)) # {}
    \/ Contains(Lower(title), reference_normalized)
    \/ Contains(reference_normalized, Lower(title))

\* the two tests, worked out once for every reference and title
Normalized ==
    [ text \in Titles \cup References |-> NormalizeTaskReference(text) ]

Partial ==
    [ reference \in References |->
        [ title \in Titles |-> PartialMatch(Normalized[reference], title) ] ]

\* store.get_pending_tasks(): the ids of the rows that are pending or in
\* progress (the code walks them newest first)
PendingTasks(rows) ==
    { i \in 1..Len(rows) : rows[i].status \in {"pending", "in_progress"} }

Newest(ids) == CHOOSE i \in ids : \A j \in ids : j <= i

\* what becomes of the partial matches: guess the newest one
Decide_Guesses(matches) ==
    IF matches = {} THEN [complete |-> {}, response |-> "task_not_found"]
    ELSE [complete |-> {Newest(matches)}, response |-> "confirm_task_completed"]

\* what becomes of the partial matches, engine.py lines 215-221
Decide(matches) ==
    IF Cardinality(matches) = 1
    THEN [complete |-> matches, response |-> "confirm_task_completed"]
    ELSE IF Cardinality(matches) > 1
    THEN [complete |-> {}, response |-> "suggest_matching_tasks"]
    ELSE [complete |-> {}, response |-> "task_not_found"]

\* _handle_completion(parsed): the rows to complete and the answer
CompletionOf(reference, rows) ==
    IF reference = ""
    THEN [complete |-> {}, response |-> "which_task"]
    ELSE
      LET pending == PendingTasks(rows)
          exact == { i \in pending :
                       Normalized[rows[i].title] = Normalized[reference] }
          matches == { i \in pending : Partial[reference][rows[i].title] }
      IN IF exact # {}
         THEN [complete |-> {Newest(exact)},
               response |-> "confirm_task_completed"]
         ELSE Decide(matches)

\* store.complete_task(id)
CompleteTask(rows, ids) ==
    [ i \in 1..Len(rows) |->
        IF i \in ids THEN [rows[i] EXCEPT !.status = "completed"]
        ELSE rows[i] ]

\* store.create_task(title)
CreateTask(title) ==
    /\ Len(tasks) < MaxTasks
    /\ tasks' = Append(tasks, [title |-> title, status |-> "pending"])
    /\ completion' = << >>
    /\ UNCHANGED outside_efe

\* store.update_task_status(id, TaskStatus.IN_PROGRESS)
UpdateTaskStatus(id) ==
    /\ id \in 1..Len(tasks)
    /\ tasks[id].status = "pending"
    /\ tasks' = [tasks EXCEPT ![id].status = "in_progress"]
    /\ completion' = << >>
    /\ UNCHANGED outside_efe

\* _handle_completion(parsed) with parsed.task_reference = reference
HandleCompletion(reference) ==
    /\ LET c == CompletionOf(reference, tasks)
       IN /\ tasks' = CompleteTask(tasks, c.complete)
          /\ completion' = << [reference |-> reference,
                               before |-> tasks,
                               after |-> tasks',
                               response |-> c.response] >>
    /\ UNCHANGED outside_efe

EfeNext ==
    \/ \E title \in Titles : CreateTask(title)
    \/ \E id \in 1..MaxTasks : UpdateTaskStatus(id)
    \/ \E reference \in References : HandleCompletion(reference)

EfeSpec == Init /\ [][EfeNext]_all_vars

\* the pending tasks whose normalized title equals the normalized reference
ExactMatches(c) ==
    { i \in PendingTasks(c.before) :
        Normalized[c.before[i].title] = Normalized[c.reference] }

\* the pending tasks that are partial-match candidates
Candidates(c) ==
    { i \in PendingTasks(c.before) : Partial[c.reference][c.before[i].title] }

\* the tasks the call completed
Completed(c) ==
    { i \in 1..Len(c.before) :
        c.before[i].status # "completed" /\ c.after[i].status = "completed" }

\* what the claim says of one call
CompletesByCandidates(c) ==
    /\ Len(c.after) = Len(c.before)
    /\ \A i \in 1..Len(c.before) :
          i \notin Completed(c) => c.after[i] = c.before[i]
    /\ (ExactMatches(c) # {} \/ Cardinality(Candidates(c)) = 1) =>
          /\ Cardinality(Completed(c)) = 1
          /\ Completed(c) \subseteq PendingTasks(c.before)
          /\ Completed(c) \subseteq
                (IF ExactMatches(c) # {} THEN ExactMatches(c)
                 ELSE Candidates(c))
    /\ Candidates(c) = {} =>
          /\ Completed(c) = {}
          /\ c.response = "task_not_found"
    /\ (Cardinality(Candidates(c)) >= 2 /\ ExactMatches(c) = {}) =>
          /\ Completed(c) = {}
          /\ c.response = "suggest_matching_tasks"
    /\ Completed(c) \cap PendingTasks(c.after) = {}

\* C22 as stated: _handle_completion completes exactly one pending task when
\* some pending task's normalized title equals the normalized reference or
\* exactly one pending task is a partial-match candidate; with no candidate
\* it completes none and answers not found, with two or more and no exact
\* match it completes none and asks which one; a completed task is no longer
\* pending
C22_CompletesByCandidates ==
    \A n \in 1..Len(completion) : CompletesByCandidates(completion[n])

\* C22, for a reference that is not empty
C22_CompletesByCandidatesOfReference ==
    \A n \in 1..Len(completion) :
        completion[n].reference # "" => CompletesByCandidates(completion[n])

\* "called my mom" completed the in-progress "call mom" by its exact match
\* although "Call the dentist" was a candidate too
C22_Witness ==
    /\ completion # << >>
    /\ completion[1].reference = "called my mom"
    /\ Cardinality(Candidates(completion[1])) >= 2
    /\ \E i \in Completed(completion[1]) :
          /\ completion[1].before[i].title = "call mom"
          /\ completion[1].before[i].status = "in_progress"
    /\ completion[1].response = "confirm_task_completed"

\* ---------------------------------------------------------------------
\* EventBus (BusSpec)
\* ---------------------------------------------------------------------

outside_bus ==
    << vars, capture_vars, vad_vars, constructor, wake_vars, parsed, hhmm,
       efe_vars,
       timed,
       cleaned,
       voice_vars,
       sched_vars >>

\* the most emit() calls, and the most subscriptions
MaxEmits == 2
MaxSubscriptions == 2

EventNames == {"test.event", "other"}

\* the number of subscriptions in h
Subscriptions(h) == Len(h["test.event"]) + Len(h["test.*"]) + Len(h["*"])

\* how a call of a handler ends: it returns, raises an Exception, or is
\* still running after handler_timeout
Outcomes == {"returns", "raises", "times_out"}

RECURSIVE Parts(_)
\* event_name.split(".")
Parts(name) ==
    LET dots == { i \in 1..Len(name) : Ch(name, i) = "." }
    IN IF dots = {} THEN << name >>
       ELSE LET dot == CHOOSE i \in dots : \A j \in dots : i <= j
            IN << SubSeq(name, 1, dot - 1) >>
                  \o Parts(SubSeq(name, dot + 1, Len(name)))

RECURSIVE JoinDots(_)
\* ".".join(parts)
JoinDots(parts) ==
    IF Len(parts) = 1 THEN parts[1]
    ELSE parts[1] \o "." \o JoinDots(Tail(parts))

RECURSIVE Flatten(_)
Flatten(lists) ==
    IF lists = << >> THEN << >> ELSE Head(lists) \o Flatten(Tail(lists))

\* _get_handlers(event_name) over the subscriptions h
GetHandlers(h, event_name) ==
    LET parts == Parts(event_name)
        under(key) == IF key \in DOMAIN h THEN h[key] ELSE << >>
        wildcards == [ i \in 1..Len(parts) |->
                         under(JoinDots(SubSeq(parts, 1, i)) \o ".*") ]
    IN under(event_name) \o Flatten(wildcards) \o under("*")

\* the except clauses of _process_event catch the time-out only
Catches_OnlyTimeout(outcome) == outcome = "times_out"

\* the except clauses of _process_event: asyncio.TimeoutError and Exception
Catches(outcome) == outcome \in {"times_out", "raises"}

\* the handler calls _process_event gets to when they end as in outcomes:
\* all of them, or those up to the first one whose exception escapes
Reached(outcomes) ==
    LET escaping == { i \in 1..Len(outcomes) :
                        outcomes[i] # "returns" /\ ~Catches(outcomes[i]) }
    IN IF escaping = {} THEN Len(outcomes)
       ELSE CHOOSE i \in escaping : \A j \in escaping : i <= j

\* the record of a _process_event call that ended
ProcessEvent(ev, handlers, outcomes, mode) ==
    [ev |-> ev, handlers |-> handlers, mode |-> mode,
     outcomes |-> SubSeq(outcomes, 1, Reached(outcomes)),
     raised |-> Reached(outcomes) > 0
                  /\ outcomes[Reached(outcomes)] # "returns"
                  /\ ~Catches(outcomes[Reached(outcomes)])]

\* subscribe(event_name, handler) of one more handler, made before the bus
\* is first used
BusSubscribe(key) ==
    /\ ~bus_running /\ emitted = << >> /\ bus_stop = NoStop
    /\ Subscriptions(bus_handlers) < MaxSubscriptions
    /\ bus_handlers' = [bus_handlers EXCEPT
                          ![key] = Append(@, Subscriptions(bus_handlers) + 1)]
    /\ UNCHANGED << bus_running, bus_queue, unfinished, processor, emitted,
                    processed, bus_stop, outside_bus >>

\* emit(event_name): queued when the bus runs, processed at once when not
BusEmit(event_name, ends) ==
    /\ Len(emitted) < MaxEmits
    /\ LET ev == [id |-> Len(emitted) + 1, name |-> event_name]
           handlers == GetHandlers(bus_handlers, event_name)
           call == ProcessEvent(ev, handlers,
                                [ i \in 1..Len(handlers) |-> ends[i] ],
                                "direct")
       IN IF bus_running
          THEN /\ bus_queue' = Append(bus_queue, ev)
               /\ unfinished' = unfinished + 1
               /\ emitted' = Append(emitted, [ev |-> ev, mode |-> "queued",
                                              result |-> "returned"])
               /\ UNCHANGED processed
          ELSE /\ processed' = Append(processed, call)
               /\ emitted' = Append(emitted,
                     [ev |-> ev, mode |-> "direct",
                      result |-> IF call.raised THEN "raised"
                                 ELSE "returned"])
               /\ UNCHANGED << bus_queue, unfinished >>
    /\ UNCHANGED << bus_handlers, bus_running, processor, bus_stop,
                    outside_bus >>

\* start(); no start() is made while a stop() waits for the queue
BusStart ==
    /\ ~bus_running
    /\ bus_stop.at # "join"
    /\ bus_running' = TRUE
    /\ processor' = [NoTask EXCEPT !.at = "new"]
    /\ UNCHANGED << bus_handlers, bus_queue, unfinished, emitted, processed,
                    bus_stop, outside_bus >>

\* while self._running, at the top of the loop of _process_queue
LoopTest == [NoTask EXCEPT !.at = IF bus_running THEN "get" ELSE "done"]

\* the processor task runs for the first time
ProcessorBegins ==
    /\ processor.at = "new"
    /\ processor' = LoopTest
    /\ UNCHANGED << bus_handlers, bus_running, bus_queue, unfinished,
                    emitted, processed, bus_stop, outside_bus >>

\* self._queue.get() gives an event, and _process_event calls the first
\* handler, if any
ProcessorGets ==
    /\ processor.at = "get"
    /\ bus_queue # << >>
    /\ LET ev == Head(bus_queue)
           handlers == GetHandlers(bus_handlers, ev.name)
       IN /\ bus_queue' = Tail(bus_queue)
          /\ IF handlers = << >>
             THEN /\ processed' = Append(processed,
                        ProcessEvent(ev, << >>, << >>, "queued"))
                  /\ unfinished' = unfinished - 1
                  /\ processor' = LoopTest
             ELSE /\ processor' = [at |-> "handler", ev |-> ev,
                                   handlers |-> handlers,
                                   outcomes |-> << >>]
                  /\ UNCHANGED << processed, unfinished >>
    /\ UNCHANGED << bus_handlers, bus_running, emitted, bus_stop,
                    outside_bus >>

\* the handler _process_event waits for ends; the next one is called, or
\* _process_event ends and the loop goes on: with task_done(), or through
\* the except clause of _process_queue
HandlerEnds(outcome) ==
    /\ processor.at = "handler"
    /\ LET outcomes == Append(processor.outcomes, outcome)
           call == ProcessEvent(processor.ev, processor.handlers, outcomes,
                                "queued")
       IN IF call.raised \/ Len(outcomes) = Len(processor.handlers)
          THEN /\ processed' = Append(processed, call)
               /\ unfinished' = IF call.raised THEN unfinished
                                ELSE unfinished - 1
               /\ processor' = LoopTest
          ELSE /\ processor' = [processor EXCEPT !.outcomes = outcomes]
               /\ UNCHANGED << processed, unfinished >>
    /\ UNCHANGED << bus_handlers, bus_running, bus_queue, emitted, bus_stop,
                    outside_bus >>

\* stop() up to its first await: the join of the queue if the queue is not
\* empty, else the cancelled processor task
BusStop ==
    /\ bus_running
    /\ bus_running' = FALSE
    /\ IF bus_queue # << >>
       THEN /\ bus_stop' = [at |-> "join", queued |-> bus_queue]
            /\ UNCHANGED processor
       ELSE /\ bus_stop' = [at |-> "returned", queued |-> << >>]
            /\ processor' = NoTask
    /\ UNCHANGED << bus_handlers, bus_queue, unfinished, emitted, processed,
                    outside_bus >>

\* the join ends because every queued event was marked done, or after its
\* five seconds when nothing is left to mark one done; stop() cancels the
\* processor task and returns
BusStopReturns ==
    /\ bus_stop.at = "join"
    /\ \/ unfinished = 0
       \/ processor.at \in {"done", "none"}
    /\ bus_stop' = [bus_stop EXCEPT !.at = "returned"]
    /\ processor' = NoTask
    /\ UNCHANGED << bus_handlers, bus_running, bus_queue, unfinished,
                    emitted, processed, outside_bus >>

BusNext ==
    \/ \E key \in Keys : BusSubscribe(key)
    \/ \E event_name \in EventNames,
          ends \in [1..MaxSubscriptions -> Outcomes] :
            BusEmit(event_name, ends)
    \/ BusStart
    \/ ProcessorBegins
    \/ ProcessorGets
    \/ \E outcome \in Outcomes : HandlerEnds(outcome)
    \/ BusStop
    \/ BusStopReturns

BusSpec == Init /\ [][BusNext]_all_vars

\* C23: when the bus processes an event, a handler that raises or exceeds
\* handler_timeout keeps no other handler of that event from being called,
\* and neither emit() nor the queue processor fails because of it
C23_HandlersIsolated ==
    /\ \A n \in 1..Len(processed) :
          /\ Len(processed[n].outcomes) = Len(processed[n].handlers)
          /\ ~processed[n].raised
    /\ \A n \in 1..Len(emitted) : emitted[n].result = "returned"

\* an emit() on the stopped bus returned after its first handler raised and
\* its second one was called, and the processor called the second handler
\* of a queued event after the first one timed out
C23_Witness ==
    /\ \E n \in 1..Len(processed) :
          /\ processed[n].mode = "direct"
          /\ Len(processed[n].handlers) = 2
          /\ processed[n].outcomes = << "raises", "returns" >>
          /\ \E m \in 1..Len(emitted) :
                /\ emitted[m].ev = processed[n].ev
                /\ emitted[m].result = "returned"
    /\ \E n \in 1..Len(processed) :
          /\ processed[n].mode = "queued"
          /\ Len(processed[n].handlers) = 2
          /\ processed[n].outcomes = << "times_out", "returns" >>

\* C24: every event that emit() placed on the queue before stop() was
\* called is delivered to its handlers before stop() returns, for any number
\* of queued events
C24_StopDrainsQueue ==
    bus_stop.at = "returned" =>
        \A i \in 1..Len(bus_stop.queued) :
            \E n \in 1..Len(processed) :
                /\ processed[n].ev = bus_stop.queued[i]
                /\ Len(processed[n].outcomes) = Len(processed[n].handlers)

\* ---------------------------------------------------------------------
\* CapturePipeline._parse_time (TimeSpec)
\* ---------------------------------------------------------------------

outside_time ==
    << vars, capture_vars, vad_vars, constructor, wake_vars,
       parsed, hhmm, efe_vars, bus_vars,
       cleaned,
       voice_vars,
       sched_vars >>

\* hours and minutes spoken: the last hour is none of a day, the last
\* minute none of an hour
SpokenHours == {0, 3, 7, 8, 12, 15, 23, 24}
SpokenMinutes == {0, 30, 59, 75}
SpokenMeridiems == {"", "am", " pm"}

\* a bare "at H[:MM][am|pm]"
ClockPhrases ==
    { [kind |-> "clock", h |-> h, has_minute |-> has_minute,
       minute |-> IF has_minute THEN minute ELSE 0,
       ampm |-> Strip(ampm),
       text |-> ClockPhrase(h, has_minute, minute, ampm)] :
        h \in SpokenHours, has_minute \in BOOLEAN, minute \in SpokenMinutes,
        ampm \in SpokenMeridiems }

\* a weekday name, with and without "on"
DayPhrases ==
    { [kind |-> "weekday", day |-> i - 1, text |-> on \o DayNames[i]] :
        i \in 1..7, on \in {"", "on "} }

\* the clocks of the parser's runs on each day of a week
WeekClocks ==
    { [c EXCEPT !.day = c.day + k] : c \in Clocks, k \in 0..6 }

\* _parse_time(text), called once, datetime.now() reading now
ParseTimeCall(phrase, now) ==
    /\ timed = << >>
    /\ timed' = << [phrase |-> phrase, now |-> now,
                    result |-> ParseTime(phrase.text, now)] >>
    /\ UNCHANGED outside_time

\* the calls made: each clock phrase at each clock, each weekday phrase on
\* each day of the week
TimeCalls ==
    (ClockPhrases \X Clocks) \cup (DayPhrases \X WeekClocks)

TimeNext == \E call \in TimeCalls : ParseTimeCall(call[1], call[2])

TimeSpec == Init /\ [][TimeNext]_all_vars

\* the hour of the phrase, by its meridiem, is one of a day
ValidHour(p) == Meridiem(p.h, p.ampm) \in 0..23

ValidMinute(p) == p.minute \in 0..59

\* what the claim says of the call c on a clock phrase
WithinADay(c) ==
    LET today == [day |-> c.now.day, hour |-> Meridiem(c.phrase.h, c.phrase.ampm),
                  minute |-> c.phrase.minute]
    IN /\ c.result.outcome = "value"
       \* strictly later than now, and at most 24 hours later
       /\ ~NotAfter(c.result.time, c.now)
       /\ NotAfter(c.result.time, [c.now EXCEPT !.day = @ + 1])
       \* today when that is still to come, else the same time tomorrow
       /\ c.result.time = IF NotAfter(today, c.now)
                          THEN [today EXCEPT !.day = @ + 1]
                          ELSE today

\* C31 as stated: for a bare "at H[:MM][am|pm]" with a valid hour the
\* trigger_time of _parse_time is strictly later than now and at most 24
\* hours after now: the time today when that is still to come, else the
\* same clock time tomorrow
C31_BareTimeWithinADay ==
    \A n \in 1..Len(timed) :
        (timed[n].phrase.kind = "clock" /\ ValidHour(timed[n].phrase))
            => WithinADay(timed[n])

\* C31, for a valid hour and a valid minute
C31_BareValidTimeWithinADay ==
    \A n \in 1..Len(timed) :
        (/\ timed[n].phrase.kind = "clock"
         /\ ValidHour(timed[n].phrase)
         /\ ValidMinute(timed[n].phrase))
            => WithinADay(timed[n])

\* "at 3" heard at 15:00 is 15:00 of the next day
C31_Witness ==
    /\ timed # << >>
    /\ timed[1].phrase.text = "at 3"
    /\ timed[1].now.hour = 15 /\ timed[1].now.minute = 0
    /\ timed[1].result.outcome = "value"
    /\ timed[1].result.time =
          [day |-> timed[1].now.day + 1, hour |-> 15, minute |-> 0]

\* C32: a weekday name resolves to 09:00 on the first date strictly after
\* today whose weekday is the named one: 1 to 7 days ahead, and 7 days
\* ahead, never today, when today's weekday is named
C32_NextWeekday ==
    \A n \in 1..Len(timed) :
        timed[n].phrase.kind = "weekday" =>
            LET c == timed[n]
                ahead == c.result.time.day - c.now.day
            IN /\ c.result.outcome = "value"
               /\ c.result.time.hour = 9 /\ c.result.time.minute = 0
               /\ ahead \in 1..7
               /\ Weekday(c.result.time) = c.phrase.day
               /\ \A k \in 1..(ahead - 1) :
                     Weekday([c.now EXCEPT !.day = @ + k]) # c.phrase.day
               /\ Weekday(c.now) = c.phrase.day => ahead = 7

\* "on friday" heard on a Friday is 09:00 a week later
C32_Witness ==
    /\ timed # << >>
    /\ timed[1].phrase.text = "on friday"
    /\ Weekday(timed[1].now) = 4
    /\ timed[1].result.outcome = "value"
    /\ timed[1].result.time =
          [day |-> timed[1].now.day + 7, hour |-> 9, minute |-> 0]

\* ---------------------------------------------------------------------
\* CapturePipeline._clean_task_title (CleanSpec)
\* ---------------------------------------------------------------------

outside_clean ==
    << vars, capture_vars, vad_vars, constructor, wake_vars,
       parsed, hhmm, efe_vars, bus_vars, timed,
       voice_vars,
       sched_vars >>

\* the titles cleaned: a beginning, then a last word written apart from it
\* or run into it, then punctuation
TitleStems == {"buy milk", "Call mom", "comb", "near", ""}
TitleEndings ==
    {"", "soon"} \cup { TitleTimeWords[i] : i \in 1..Len(TitleTimeWords) }
TitleMarks == {"", ".", "?!"}

RawTitles ==
    { stem \o gap \o ending \o mark :
        stem \in TitleStems, gap \in {"", " "}, ending \in TitleEndings,
        mark \in TitleMarks }

\* _clean_task_title(title), called once
CleanCall(title) ==
    /\ cleaned = << >>
    /\ cleaned' = << [title |-> title, result |-> CleanTaskTitle(title)] >>
    /\ UNCHANGED outside_clean

CleanNext == \E title \in RawTitles : CleanCall(title)

CleanSpec == Init /\ [][CleanNext]_all_vars

\* the time phrases that are a whole trailing word of the title
WholeTrailingWords(title) ==
    { i \in 1..Len(TitleTimeWords) :
        /\ EndsWith(Lower(title), TitleTimeWords[i])
        /\ \/ Len(title) = Len(TitleTimeWords[i])
           \/ IsSpace(Ch(title, Len(title) - Len(TitleTimeWords[i]))) }

\* the title the claim describes
ClaimedTitle(title) ==
    LET hits == WholeTrailingWords(title)
        cut == IF hits = {} THEN title
               ELSE LET w == TitleTimeWords[
                               CHOOSE i \in hits : \A j \in hits : i <= j]
                    IN Strip(SubSeq(title, 1, Len(title) - Len(w)))
        bare == RStripPunctuation(cut)
    IN IF bare = "" THEN ""
       ELSE UpperCh(Ch(bare, 1)) \o SubSeq(bare, 2, Len(bare))

\* C33: _clean_task_title removes a trailing time phrase only when it is a
\* whole trailing word of the title, then removes trailing punctuation and
\* capitalizes the first letter; a title that ends in no time word and no
\* punctuation comes back unchanged but for the capital first letter
C33_WholeTrailingWord ==
    \A n \in 1..Len(cleaned) :
        /\ cleaned[n].result = ClaimedTitle(cleaned[n].title)
        /\ (/\ WholeTrailingWords(cleaned[n].title) = {}
            /\ RStripPunctuation(cleaned[n].title) = cleaned[n].title
            /\ cleaned[n].title # "")
              => cleaned[n].result =
                    UpperCh(Ch(cleaned[n].title, 1))
                       \o SubSeq(cleaned[n].title, 2, Len(cleaned[n].title))

\* ---------------------------------------------------------------------
\* TextToSpeech (TtsSpec)
\* ---------------------------------------------------------------------

outside_voice ==
    << vars, capture_vars, vad_vars, constructor, wake_vars,
       parsed, hhmm, efe_vars, bus_vars, timed,
       cleaned,
       sched_vars >>

\* the most speak() and speak_blocking() calls
MaxSpeaks == 3

\* _synthesize(text) gives audio, or None
Syntheses == {"audio", "none"}

\* how a playback task ends by itself
PlaybackEnds == {"completed", "failed"}

\* is_playing
IsPlaying == playback.state = "running"

\* the playback task after a cancel() by the caller named
Cancelled(p, by) ==
    IF p.state = "running" THEN [p EXCEPT !.state = "cancelled", !.by = by]
    ELSE p

\* the waiting speak_blocking call when its playback task goes to state s:
\* only on_complete, called when the playback completed, sets the event
Notified(b, p, s) ==
    IF b.at = "wait" /\ p.blocking /\ p.state = "running"
    THEN [b EXCEPT !.own = s, !.set = (s = "completed")]
    ELSE b

\* cancel_playback() by the caller named
CancelPlayback(by) ==
    /\ playback' = Cancelled(playback, by)
    /\ blocking' = Notified(blocking, playback, "cancelled")

\* speak(text): cancels the playback under way and starts one
Speak(synthesis, on_complete) ==
    /\ speaks' = speaks + 1
    /\ playback' = IF synthesis = "audio"
                   THEN [state |-> "running", by |-> "", heard |-> FALSE,
                         blocking |-> on_complete]
                   ELSE Cancelled(playback, "speak")

\* speak_blocking(text) up to its wait for the event
SpeakBlocking(synthesis) ==
    /\ Speak(synthesis, TRUE)
    /\ blocking' = IF synthesis = "audio"
                   THEN [at |-> "wait", own |-> "running", set |-> FALSE,
                         result |-> FALSE]
                   ELSE [at |-> "returned", own |-> "none", set |-> FALSE,
                         result |-> FALSE]

\* the playback task ends by itself
PlaybackEnded(how) ==
    /\ IsPlaying
    /\ playback' = [playback EXCEPT !.state = how]
    /\ blocking' = Notified(blocking, playback, how)
    /\ UNCHANGED speaks

\* completed.wait() is over
Waited(b) == b.set

\* speak_blocking returns success[0] once the event is set
BlockingReturns ==
    /\ blocking.at = "wait"
    /\ Waited(blocking)
    /\ blocking' = [blocking EXCEPT !.at = "returned", !.result = blocking.set]
    /\ UNCHANGED << playback, speaks >>

\* the task in speak_blocking is cancelled while it waits: the except
\* clause cancels the playback and returns False
BlockingCancelled ==
    /\ blocking.at = "wait"
    /\ playback' = Cancelled(playback, "speak_blocking")
    /\ blocking' = [Notified(blocking, playback, "cancelled") EXCEPT
                       !.at = "returned", !.result = FALSE]
    /\ UNCHANGED speaks

voice_rest == << voice_queue, voice_handler, listening >>

TtsSpeakBlocking(synthesis) ==
    /\ blocking.at # "wait"
    /\ speaks < MaxSpeaks
    /\ SpeakBlocking(synthesis)
    /\ UNCHANGED << voice_rest, outside_voice >>

\* speak() by another task
TtsSpeak(synthesis) ==
    /\ speaks < MaxSpeaks
    /\ Speak(synthesis, FALSE)
    /\ blocking' = Notified(blocking, playback, "cancelled")
    /\ UNCHANGED << voice_rest, outside_voice >>

\* cancel_playback() by another task
TtsCancelPlayback ==
    /\ IsPlaying
    /\ CancelPlayback("cancel_playback")
    /\ UNCHANGED << speaks, voice_rest, outside_voice >>

TtsPlaybackEnded(how) ==
    PlaybackEnded(how) /\ UNCHANGED << voice_rest, outside_voice >>

TtsBlockingReturns ==
    BlockingReturns /\ UNCHANGED << voice_rest, outside_voice >>

TtsBlockingCancelled ==
    BlockingCancelled /\ UNCHANGED << voice_rest, outside_voice >>

TtsNext ==
    \/ \E synthesis \in Syntheses : TtsSpeakBlocking(synthesis)
    \/ \E synthesis \in Syntheses : TtsSpeak(synthesis)
    \/ TtsCancelPlayback
    \/ \E how \in PlaybackEnds : TtsPlaybackEnded(how)
    \/ TtsBlockingReturns
    \/ TtsBlockingCancelled

\* the event loop runs the task of speak_blocking once its event is set
TtsSpec ==
    Init /\ [][TtsNext]_all_vars /\ WF_all_vars(TtsBlockingReturns)

\* C37: speak_blocking always returns once the playback task it started has
\* ended, be it completed, failed or cancelled by cancel_playback() or by
\* another speak(); it returns True only when the playback completed
C37_SpeakBlockingReturns ==
    /\ []((blocking.at = "wait"
             /\ blocking.own \in {"completed", "failed", "cancelled"})
            => <>(blocking.at = "returned"))
    /\ []((blocking.at = "returned" /\ blocking.result)
            => blocking.own = "completed")

\* ---------------------------------------------------------------------
\* VoicePipeline on the started event bus (VoiceSpec): the audio pipeline
\* queues its events, the bus processor runs one handler at a time.
\* Events no handler of the VoicePipeline subscribes to are left out.
\* ---------------------------------------------------------------------

\* the most events waiting on the bus
MaxQueued == 2

\* what intent.route() answers
Responses == {"", "Okay."}

\* pipeline.py: a wake word is detected and the event is put on the queue
AudioWakeWord ==
    /\ ~listening
    /\ Len(voice_queue) < MaxQueued
    /\ listening' = TRUE
    /\ voice_queue' = Append(voice_queue, "audio.wake_word_detected")
    /\ playback' = IF IsPlaying THEN [playback EXCEPT !.heard = TRUE]
                   ELSE playback
    /\ UNCHANGED << blocking, speaks, voice_handler, outside_voice >>

\* pipeline.py: the utterance after the wake word is put on the queue
AudioUtterance ==
    /\ listening
    /\ Len(voice_queue) < MaxQueued
    /\ listening' = FALSE
    /\ voice_queue' = Append(voice_queue, "audio.utterance_complete")
    /\ UNCHANGED << playback, blocking, speaks, voice_handler, outside_voice >>

\* _process_queue awaits _process_event before its next get()
ProcessorFree(handler) == handler = "none"

\* the processor takes a wake-word event and runs _on_wake_word
OnWakeWord ==
    /\ ProcessorFree(voice_handler)
    /\ voice_queue # << >>
    /\ Head(voice_queue) = "audio.wake_word_detected"
    /\ voice_queue' = Tail(voice_queue)
    /\ IF IsPlaying THEN CancelPlayback("_on_wake_word")
       ELSE UNCHANGED << playback, blocking >>
    /\ UNCHANGED << speaks, voice_handler, listening, outside_voice >>

\* the processor takes an utterance and runs _on_utterance_complete up to
\* the wait inside speak_blocking
OnUtteranceComplete(response, synthesis) ==
    /\ ProcessorFree(voice_handler)
    /\ voice_queue # << >>
    /\ Head(voice_queue) = "audio.utterance_complete"
    /\ voice_queue' = Tail(voice_queue)
    /\ IF response # "" /\ speaks < MaxSpeaks
       THEN /\ SpeakBlocking(synthesis)
            /\ voice_handler' = IF synthesis = "audio" THEN "_on_utterance_complete"
                                ELSE "none"
       ELSE UNCHANGED << playback, blocking, speaks, voice_handler >>
    /\ UNCHANGED << listening, outside_voice >>

VoicePlaybackEnded(how) ==
    PlaybackEnded(how) /\ UNCHANGED << voice_rest, outside_voice >>

\* speak_blocking returns and _on_utterance_complete ends
UtteranceHandlerReturns ==
    /\ voice_handler = "_on_utterance_complete"
    /\ BlockingReturns
    /\ voice_handler' = "none"
    /\ UNCHANGED << voice_queue, listening, outside_voice >>

\* wait_for in _process_event cancels the handler after handler_timeout
HandlerTimesOut ==
    /\ voice_handler = "_on_utterance_complete"
    /\ BlockingCancelled
    /\ voice_handler' = "none"
    /\ UNCHANGED << voice_queue, listening, outside_voice >>

VoiceNext ==
    \/ AudioWakeWord
    \/ AudioUtterance
    \/ OnWakeWord
    \/ \E response \in Responses, synthesis \in Syntheses :
          OnUtteranceComplete(response, synthesis)
    \/ \E how \in PlaybackEnds : VoicePlaybackEnded(how)
    \/ UtteranceHandlerReturns
    \/ HandlerTimesOut

VoiceSpec == Init /\ [][VoiceNext]_all_vars

\* C34: a wake word detected during a playback is handled while the
\* playback is still under way: with the wake-word event next on the queue
\* its handler does not wait for the utterance handler that is speaking to
\* end or to time out, so the playback is cancelled before it ends by itself
C34_WakeWordCancelsPlayback ==
    (/\ playback.heard
     /\ IsPlaying
     /\ voice_queue # << >>
     /\ Head(voice_queue) = "audio.wake_word_detected")
        => ProcessorFree(voice_handler)

\* ---------------------------------------------------------------------
\* ReminderScheduler and the reminder operations of EFEStore (SchedSpec).
\* Time is counted in days from day 0; None stands for a date that is not
\* set, and the dates that are set are later days.
\* ---------------------------------------------------------------------

outside_sched ==
    << vars, capture_vars, vad_vars, constructor, wake_vars,
       parsed, hhmm, efe_vars, bus_vars, timed,
       cleaned, voice_vars >>

\* the most rows of the reminders table
MaxReminders == 3

\* the last day
MaxToday == 2

\* the most snooze_reminder calls
MaxSnoozes == 1

Recurrences == {"none", "daily"}

\* the trigger_time of the reminders created
TriggerTimes == {0, 1}

\* the days a recurrence_end is set to, None for a reminder without one
RecurrenceEnds == {None, 1}

\* snooze_reminder(id, minutes), minutes given as days
SnoozeDays == {1}

\* _calculate_next_time(current_time, recurrence)
CalculateNextTime(current_time, recurrence) ==
    CASE recurrence = "daily" -> current_time + 1
      [] recurrence = "weekly" -> current_time + 7
      [] recurrence = "monthly" -> current_time + 30
      [] recurrence = "yearly" -> current_time + 365
      [] OTHER -> current_time

\* Reminder(message, trigger_time, recurrence) with the column defaults
NewReminder(trigger_time, recurrence) ==
    [status |-> "pending", trigger_time |-> trigger_time,
     recurrence |-> recurrence, recurrence_end |-> None,
     snoozed_until |-> None, snooze_count |-> 0]

\* the where clause of get_due_reminders
Selected(r, now) == r.status = "pending" /\ r.trigger_time <= now

\* get_due_reminders(): the ids, in order of creation
RECURSIVE DueFrom(_, _, _)
DueFrom(rows, i, now) ==
    IF i > Len(rows) THEN << >>
    ELSE LET r == rows[i]
         IN (IF Selected(r, now)
                /\ (r.snoozed_until = None \/ now >= r.snoozed_until)
             THEN << i >> ELSE << >>) \o DueFrom(rows, i + 1, now)

GetDueReminders(rows, now) == DueFrom(rows, 1, now)

\* trigger_reminder(id)
TriggerReminder(rows, id) == [rows EXCEPT ![id].status = "triggered"]

\* _schedule_next_occurrence(reminder): the table afterwards
ScheduleNextOccurrence(rows, reminder) ==
    LET next_time == CalculateNextTime(reminder.trigger_time, reminder.recurrence)
    IN IF reminder.recurrence_end # None /\ next_time > reminder.recurrence_end
       THEN rows
       ELSE Append(rows, NewReminder(next_time, reminder.recurrence))

\* create_reminder(...), and the recurrence_end column written to the row
CreateReminder(trigger_time, recurrence, recurrence_end) ==
    /\ Len(reminder_rows) < MaxReminders
    /\ recurrence_end # None => recurrence # "none" /\ trigger_time <= recurrence_end
    /\ reminder_rows' = Append(reminder_rows,
          [NewReminder(trigger_time, recurrence) EXCEPT
              !.recurrence_end = recurrence_end])
    /\ fired' = Append(fired, 0)
    /\ parent' = Append(parent, 0)
    /\ UNCHANGED << current_day, scheduler, manual, outside_sched >>

\* a day passes
NextDay ==
    /\ current_day < MaxToday
    /\ current_day' = current_day + 1
    /\ UNCHANGED << reminder_rows, scheduler, manual, fired, parent,
                    outside_sched >>

\* start()
SchedulerStart ==
    /\ ~scheduler.running
    /\ scheduler' = [running |-> TRUE, at |-> "sleep", due |-> << >>]
    /\ UNCHANGED << reminder_rows, current_day, manual, fired, parent, outside_sched >>

\* the body of the for loops up to the await of on_reminder: the head of
\* the list read earlier is marked triggered and the callback is called
Fire(call) ==
    LET id == Head(call.due)
    IN /\ reminder_rows' = TriggerReminder(reminder_rows, id)
       /\ fired' = [fired EXCEPT ![id] = @ + 1]

\* _run_loop wakes up and _check_reminders reads the due reminders
LoopChecks ==
    /\ scheduler.at = "sleep"
    /\ GetDueReminders(reminder_rows, current_day) # << >>
    /\ scheduler' = [scheduler EXCEPT !.at = "callback",
                        !.due = GetDueReminders(reminder_rows, current_day)]
    /\ Fire(scheduler')
    /\ UNCHANGED << current_day, manual, parent, outside_sched >>

\* on_reminder returns or raises in _check_reminders: the next occurrence
\* is scheduled and the next reminder of the list is fired
LoopCallbackEnds ==
    /\ scheduler.at = "callback"
    /\ LET id == Head(scheduler.due)
           reminder == reminder_rows[id]
           rows == IF reminder.recurrence # "none"
                   THEN ScheduleNextOccurrence(reminder_rows, reminder)
                   ELSE reminder_rows
           more == Tail(scheduler.due)
           grown == Len(rows) > Len(reminder_rows)
       IN /\ Len(rows) <= MaxReminders
          /\ scheduler' = [scheduler EXCEPT !.due = more,
                              !.at = IF more = << >> THEN "sleep" ELSE "callback"]
          /\ reminder_rows' = IF more = << >> THEN rows
                              ELSE TriggerReminder(rows, Head(more))
          /\ fired' = LET f == IF grown THEN Append(fired, 0) ELSE fired
                      IN IF more = << >> THEN f
                         ELSE [f EXCEPT ![Head(more)] = @ + 1]
          /\ parent' = IF grown THEN Append(parent, id) ELSE parent
    /\ UNCHANGED << current_day, manual, outside_sched >>

\* check_now() reads the due reminders
CheckNow ==
    /\ manual.at = "none"
    /\ GetDueReminders(reminder_rows, current_day) # << >>
    /\ manual' = [at |-> "callback", due |-> GetDueReminders(reminder_rows, current_day)]
    /\ Fire(manual')
    /\ UNCHANGED << current_day, scheduler, parent, outside_sched >>

\* on_reminder returns or raises in check_now
CheckNowCallbackEnds ==
    /\ manual.at = "callback"
    /\ LET more == Tail(manual.due)
       IN /\ manual' = IF more = << >> THEN NoCheck
                       ELSE [manual EXCEPT !.due = more]
          /\ IF more = << >>
             THEN UNCHANGED << reminder_rows, fired >>
             ELSE Fire(manual')
    /\ UNCHANGED << current_day, scheduler, parent, outside_sched >>

\* the snooze_reminder calls so far
RECURSIVE Snoozes(_)
Snoozes(rows) ==
    IF rows = << >> THEN 0 ELSE Head(rows).snooze_count + Snoozes(Tail(rows))

\* snooze_reminder(id, minutes)
SnoozeReminder(id, days) ==
    /\ id \in 1..Len(reminder_rows)
    /\ Snoozes(reminder_rows) < MaxSnoozes
    /\ reminder_rows' = [reminder_rows EXCEPT
          ![id].status = "snoozed",
          ![id].snoozed_until = current_day + days,
          ![id].snooze_count = @ + 1]
    /\ UNCHANGED << current_day, scheduler, manual, fired, parent, outside_sched >>

\* unsnooze_reminder(id)
UnsnoozeReminder(id) ==
    /\ id \in 1..Len(reminder_rows)
    /\ reminder_rows[id].status = "snoozed"
    /\ reminder_rows' = [reminder_rows EXCEPT
          ![id].status = "pending", ![id].snoozed_until = None]
    /\ UNCHANGED << current_day, scheduler, manual, fired, parent, outside_sched >>

SchedNext ==
    \/ \E trigger_time \in TriggerTimes, recurrence \in Recurrences,
          recurrence_end \in RecurrenceEnds :
          CreateReminder(trigger_time, recurrence, recurrence_end)
    \/ NextDay
    \/ SchedulerStart
    \/ LoopChecks
    \/ LoopCallbackEnds
    \/ CheckNow
    \/ CheckNowCallbackEnds
    \/ \E id \in 1..MaxReminders, days \in SnoozeDays : SnoozeReminder(id, days)
    \/ \E id \in 1..MaxReminders : UnsnoozeReminder(id)

SchedSpec == Init /\ [][SchedNext]_all_vars

\* C35: on_reminder is called at most once for each reminder, however the
\* background loop and check_now() calls interleave: once, and once more
\* for each time the reminder was snoozed and set back to pending
C35_FiredAtMostOnce ==
    \A id \in 1..Len(reminder_rows) :
        fired[id] <= 1 + reminder_rows[id].snooze_count

\* C39: a snoozed reminder becomes due again by itself: once snoozed_until
\* has passed get_due_reminders() returns it with no further call, and
\* before snoozed_until it does not
C39_SnoozedComesDue ==
    \A id \in 1..Len(reminder_rows) :
        LET r == reminder_rows[id]
            due == \E i \in 1..Len(GetDueReminders(reminder_rows, current_day)) :
                      GetDueReminders(reminder_rows, current_day)[i] = id
        IN (r.status = "snoozed" /\ r.trigger_time <= current_day)
              => (due <=> current_day >= r.snoozed_until)

\* the first occurrence of the chain a reminder belongs to
RECURSIVE ChainStart(_)
ChainStart(id) == IF parent[id] = 0 THEN id ELSE ChainStart(parent[id])

\* the occurrences scheduled from a reminder
NextOccurrences(id) == {n \in 1..Len(parent) : parent[n] = id}

\* C40: no occurrence of a chain that starts with a recurrence_end has a
\* trigger_time later than that recurrence_end; each firing of an
\* occurrence schedules at most one next occurrence, and that one period
\* after the trigger_time of the occurrence fired
C40_ChainEndsAtRecurrenceEnd ==
    \A id \in 1..Len(reminder_rows) :
        LET r == reminder_rows[id]
            first == reminder_rows[ChainStart(id)]
        IN /\ first.recurrence_end # None
                => r.trigger_time <= first.recurrence_end
           /\ Cardinality(NextOccurrences(id)) <= fired[id]
           /\ \A n \in NextOccurrences(id) :
                 reminder_rows[n].trigger_time
                    = CalculateNextTime(r.trigger_time, r.recurrence)

\* ---------------------------------------------------------------------
\* AudioPipeline life cycle (Spec), continued
\* ---------------------------------------------------------------------

\* a component of the AudioPipeline is running
ComponentRunning ==
    capture_running \/ wake_running \/ vad_running \/ stt_running

\* C38: with is_running false and no start() or stop() under way, no
\* component is running: what a failed start() left running is stopped at
\* the latest by the stop() that follows
C38_NoComponentLeftRunning ==
    (last_call = "stop" /\ ~pipeline_running) => ~ComponentRunning

\* ---------------------------------------------------------------------
\* AudioCapture (CaptureSpec), continued
\* ---------------------------------------------------------------------

\* C36: once stop() has returned the queue is empty, and it stays empty
\* until the next start(), so that no chunk handed over before stop() is
\* left for a get_chunk after that start()
C36_QueueEmptyWhileStopped ==
    ~capture_running => audio_queue = << >>

====
